---------------------------- MODULE Spec2Model ----------------------------
(***************************************************************************)
(* Verification model of copilot-orchestra:                                *)
(*   - the Conductor's phase workflow (documented state machine),          *)
(*   - the Quality-Assurance verdict rules,                                *)
(*   - the Error Recovery System (tools/error-recovery.js),                *)
(*   - the Project Initialization Wizard (tools/project-init.js).          *)
(* Each component has its own specification over the shared variables.     *)
(***************************************************************************)
EXTENDS Integers, Sequences, FiniteSets, TLC

(***************************************************************************)
(* Bounds of the exploration.                                              *)
(***************************************************************************)
MaxPhases == 2
MaxAttempts == 2
MaxCoverage == 100
MaxDefects == 1
MaxLines == 1
MaxDeps == 16
MaxEndpoints == 3

VARIABLES
  \* ---- Conductor workflow ----
  mode,         \* active mode profile
  records,      \* times the Phase Completion Record of each phase was written
  nPhases,      \* number of phases of the Plan Document (0 = no plan yet)
  pstate,       \* workflow state of the feature request
  phase,        \* index of the current phase (0 before the first phase)
  attempts,     \* attempts[k] = implementation attempts of phase k so far
  review,       \* review[k] = latest Review Verdict of phase k
  qa,           \* qa[k] = latest QA Report of phase k
  checkpoints,  \* human checkpoints passed so far
  reached,      \* phases that have reached AWAITING_COMMIT
  skipped,      \* phases the operator skipped
  lastActor,    \* who took the last workflow step
  \* ---- version control, shared by the workflow and the tools ----
  vcLog,        \* sequence of version-control operations [op, by]
  \* ---- Quality-Assurance verdict ----
  findings,     \* what the QA role found in the phase's diff
  qaStatus,     \* the Status of the QA Report ("none" before the check)
  \* ---- Error Recovery System ----
  tree,         \* the project directory the tool runs in
  erCategory,   \* this.category, the same for every run of a session
  erOpts,       \* [scan, auto]: this.scanOnly, this.autoFix of the run
  erPc,         \* position of the run
  scanned,      \* the project directory as the run's scan saw it
  issues,       \* this.issues
  fixes,        \* this.fixes
  fixIdx,       \* position of applyFixes in this.issues
  prompts,      \* questions put to the operator during the run
  prev,         \* what the previous run of the session reported
  \* ---- Project Initialization Wizard ----
  wizPc,        \* position of run()
  config,       \* this.config
  projectDir,   \* the directory this.projectDir names
  \* ---- Blueprint Generator ----
  bpDir,        \* the directory this.rootDir names
  bpPc,         \* position of the command-line run
  projectInfo,  \* this.projectInfo
  dependencies, \* this.dependencies
  detected,     \* this.patterns
  blueprint,    \* the output file ("none" while it does not exist)
  bpExit,       \* exit status of the command-line run (-1 while it runs)
  \* ---- Project Initialization Wizard: the endpoint loop of defineAPIs ----
  apiPc,        \* position inside defineAPIs
  endpoint,     \* the answer to the latest "Endpoint n:" prompt
  counter,      \* number of the next prompt
  \* ---- Retrieval service startup script ----
  shPc,         \* position of start.sh
  service,      \* state of the query service behind /health
  retry_count,  \* the shell variable of that name
  polls,        \* number of requests made to /health
  slept,        \* seconds slept inside the health check loop
  printed,      \* the last line the script printed
  exitStatus,   \* exit status of the script (-1 until it ends)
  \* ---- Setup Wizard ----
  swPc,         \* position of run()
  swEnv,        \* the machine and the operator the session meets
  swSteps,      \* the steps entered so far, in order
  swOutput,     \* the result lines printed so far
  swMade        \* what the session has created in the project

protoVars == <<mode, records, nPhases, pstate, phase, attempts, review, qa,
               checkpoints, reached, skipped, lastActor>>
qaVars == <<findings, qaStatus>>
erVars == <<tree, erCategory, erOpts, erPc, scanned, issues, fixes, fixIdx,
            prompts, prev>>
wizVars == <<wizPc, config, projectDir>>
bpVars ==
  <<bpDir, bpPc, projectInfo, dependencies, detected, blueprint, bpExit>>
apiVars == <<apiPc, endpoint, counter>>
shVars == <<shPc, service, retry_count, polls, slept, printed, exitStatus>>
swVars == <<swPc, swEnv, swSteps, swOutput, swMade>>
toolVars == <<erVars, wizVars, bpVars, apiVars, shVars, swVars>>
toolsButER == <<wizVars, bpVars, apiVars, shVars, swVars>>
toolsButWiz == <<erVars, bpVars, apiVars, shVars, swVars>>
toolsButBP == <<erVars, wizVars, apiVars, shVars, swVars>>
toolsButAPI == <<erVars, bpVars, shVars, swVars>>
toolsButSh == <<erVars, wizVars, bpVars, apiVars, swVars>>
toolsButSW == <<erVars, wizVars, bpVars, apiVars, shVars>>
vars == <<protoVars, vcLog, qaVars, toolVars>>

None == [attempt |-> 0, verdict |-> "none"]

(***************************************************************************)
(* Mode catalogue.                                                         *)
(***************************************************************************)
Modes == {"default", "strict", "rapid", "deep-research", "strict-tdd",
          "security-focused"}

ReviewVerdicts == {"APPROVED", "NEEDS_REVISION", "FAILED"}
QAStatuses == {"PASS", "ADVISORY", "FAIL"}
Checkpoints == {"AWAITING_PLAN_APPROVAL", "AWAITING_COMMIT"}

(***************************************************************************)
(* Idle values of each component, used by the other specifications.        *)
(***************************************************************************)
ProtoIdle ==
  /\ mode = "default"
  /\ records = [k \in 1..MaxPhases |-> 0]
  /\ nPhases = 0
  /\ pstate = "REQUESTED"
  /\ phase = 0
  /\ attempts = [k \in 1..MaxPhases |-> 0]
  /\ review = [k \in 1..MaxPhases |-> None]
  /\ qa = [k \in 1..MaxPhases |-> None]
  /\ checkpoints = 0
  /\ reached = {}
  /\ skipped = {}
  /\ lastActor = "none"

NoFindings ==
  [securityVuln |-> FALSE, failingTest |-> FALSE, lintBuildError |-> FALSE,
   missingTests |-> FALSE, hardcodedSecret |-> FALSE, warnings |-> FALSE,
   noTestInfra |-> FALSE, coverage |-> 0]

QAIdle ==
  /\ findings = NoFindings
  /\ qaStatus = "none"

\* A project directory with nothing to report.
HealthyTree ==
  [git |-> "clean", gitUser |-> TRUE,
   agents |-> [i \in 1..5 |-> "valid"],
   pkg |-> "testScript", framework |-> TRUE, nodeModules |-> TRUE,
   pytest |-> FALSE, pom |-> FALSE, manifest |-> "none",
   readme |-> TRUE, gitignore |-> TRUE, plans |-> TRUE]

NoRun == [ran |-> FALSE, scan |-> FALSE, auto |-> FALSE, outcome |-> "none",
          issues |-> <<>>, tree |-> HealthyTree]

ERIdle ==
  /\ tree = HealthyTree
  /\ erCategory = "all"
  /\ erOpts = [scan |-> FALSE, auto |-> FALSE]
  /\ erPc = "idle"
  /\ scanned = HealthyTree
  /\ issues = <<>>
  /\ fixes = <<>>
  /\ fixIdx = 0
  /\ prompts = 0
  /\ prev = NoRun

\* this.config of the constructor.
EmptyConfig ==
  [type |-> "", language |-> "", frontend |-> "", pattern |-> "",
   cache |-> "", messageQueue |-> "",
   apis |-> <<>>, dbType |-> "", entities |-> "undefined", authType |-> "",
   targets |-> {},
   cicd |-> "", docker |-> FALSE, variables |-> <<>>, environments |-> <<>>]

NoFiles ==
  [blueprint |-> FALSE, gitignore |-> FALSE, readme |-> FALSE,
   envExample |-> FALSE, dockerfile |-> "none", composeDb |-> "none",
   compose |-> FALSE, ciWorkflow |-> FALSE, sections |-> {}]

WizIdle ==
  /\ wizPc = "idle"
  /\ config = EmptyConfig
  /\ projectDir = [git |-> FALSE, files |-> NoFiles]

\* this.patterns of the constructor of BlueprintGenerator.
NoPatterns ==
  [frontend |-> <<>>, backend |-> <<>>, database |-> <<>>, testing |-> <<>>,
   deployment |-> <<>>]

NoDependencies == [runtime |-> <<>>, development |-> <<>>]

NoProjectInfo == [type |-> "", language |-> ""]

EmptyDir ==
  [packageJson |-> "absent", runtime |-> <<>>, development |-> <<>>,
   requirements |-> FALSE, lines |-> <<>>, pom |-> FALSE,
   composer |-> "absent", readme |-> FALSE, gitignore |-> FALSE,
   dockerfile |-> FALSE, workflows |-> FALSE,
   pyproject |-> FALSE, gradle |-> FALSE, entries |-> <<>>,
   gemfile |-> FALSE, goMod |-> FALSE, cargo |-> FALSE, name |-> "project"]

BPIdle ==
  /\ bpDir = EmptyDir
  /\ bpPc = "idle"
  /\ projectInfo = NoProjectInfo
  /\ dependencies = NoDependencies
  /\ detected = NoPatterns
  /\ blueprint = "none"
  /\ bpExit = -1

\* The empty answer.
NoLine == [method |-> "", slash |-> FALSE, path |-> "", dash |-> FALSE, desc |-> ""]

APIIdle ==
  /\ apiPc = "idle"
  /\ endpoint = NoLine
  /\ counter = 0

ShIdle ==
  /\ shPc = "idle"
  /\ service = "stopped"
  /\ retry_count = 0
  /\ polls = 0
  /\ slept = 0
  /\ printed = ""
  /\ exitStatus = -1

\* A machine where nothing is missing and nothing fails.
NoEnv ==
  [projectType |-> "Other", prerequisites |-> "found", mkdir |-> TRUE,
   packageJson |-> "absent", npm |-> "not run", git |-> "present",
   blueprint |-> "declined", scan |-> TRUE,
   plans |-> FALSE, gitignore |-> "present", readme |-> "present"]

SWIdle ==
  /\ swPc = "idle"
  /\ swEnv = NoEnv
  /\ swSteps = <<>>
  /\ swOutput = <<>>
  /\ swMade = {}

ToolsIdle == ERIdle /\ WizIdle /\ BPIdle /\ APIIdle /\ ShIdle /\ SWIdle

(***************************************************************************)
(* Conductor workflow.                                                     *)
(***************************************************************************)
ProtoInit ==
  /\ mode \in Modes
  /\ records = [k \in 1..MaxPhases |-> 0]
  /\ nPhases = 0
  /\ pstate = "REQUESTED"
  /\ phase = 0
  /\ attempts = [k \in 1..MaxPhases |-> 0]
  /\ review = [k \in 1..MaxPhases |-> None]
  /\ qa = [k \in 1..MaxPhases |-> None]
  /\ checkpoints = 0
  /\ reached = {}
  /\ skipped = {}
  /\ lastActor = "none"

\* Entering IMPLEMENTING for phase k starts a new attempt of k.
BeginAttempt(k) ==
  /\ pstate' = "IMPLEMENTING"
  /\ phase' = k
  /\ attempts' = [attempts EXCEPT ![k] = @ + 1]

\* After the current phase is left behind: next phase, or COMPLETE.
Advance ==
  IF phase < nPhases
    THEN BeginAttempt(phase + 1)
    ELSE /\ pstate' = "COMPLETE"
         /\ UNCHANGED <<phase, attempts>>

\* Conductor delegates research to the planning role.
StartPlanning ==
  /\ pstate = "REQUESTED"
  /\ pstate' = "PLANNING"
  /\ lastActor' = "conductor"
  /\ UNCHANGED <<mode, records, nPhases, phase, attempts, review, qa, checkpoints,
                 reached, skipped, vcLog, qaVars, toolVars>>

\* Conductor drafts a multi-phase plan and presents it.
DraftPlan ==
  /\ pstate = "PLANNING"
  /\ \E n \in 1..MaxPhases : nPhases' = n
  /\ pstate' = "AWAITING_PLAN_APPROVAL"
  /\ lastActor' = "conductor"
  /\ UNCHANGED <<mode, records, phase, attempts, review, qa, checkpoints,
                 reached, skipped, vcLog, qaVars, toolVars>>

\* "Revise the plan": the human requests changes; the plan is re-presented.
RevisePlan ==
  /\ pstate = "AWAITING_PLAN_APPROVAL"
  /\ \E n \in (1..MaxPhases) \ {nPhases} : nPhases' = n
  /\ lastActor' = "human"
  /\ UNCHANGED <<mode, records, pstate, phase, attempts, review, qa, checkpoints,
                 reached, skipped, vcLog, qaVars, toolVars>>

\* Mutant of ApprovePlan: rapid mode starts the first phase without waiting
\* for the human.
ApprovePlanRapidAuto ==
  /\ pstate = "AWAITING_PLAN_APPROVAL"
  /\ IF mode = "rapid"
       THEN lastActor' = "conductor" /\ UNCHANGED checkpoints
       ELSE lastActor' = "human" /\ checkpoints' = checkpoints + 1
  /\ BeginAttempt(1)
  /\ UNCHANGED <<mode, records, nPhases, review, qa, reached, skipped, vcLog, qaVars, toolVars>>

\* The human reviews and approves the plan.
ApprovePlan ==
  /\ pstate = "AWAITING_PLAN_APPROVAL"
  /\ checkpoints' = checkpoints + 1
  /\ BeginAttempt(1)
  /\ lastActor' = "human"
  /\ UNCHANGED <<mode, records, nPhases, review, qa, reached, skipped, vcLog, qaVars, toolVars>>

\* Mutant of ImplementDone: a retry after a QA FAIL reuses the earlier
\* APPROVED review and goes straight back to quality assurance.
ImplementDoneReusesReview ==
  /\ pstate = "IMPLEMENTING"
  /\ pstate' = IF review[phase].verdict = "APPROVED"
                  THEN "QA_CHECKING" ELSE "REVIEWING"
  /\ lastActor' = "implement"
  /\ UNCHANGED <<mode, records, nPhases, phase, attempts, review, qa, checkpoints,
                 reached, skipped, vcLog, qaVars, toolVars>>

\* The implementation role finishes its test-first cycle.
ImplementDone ==
  /\ pstate = "IMPLEMENTING"
  /\ pstate' = "REVIEWING"
  /\ lastActor' = "implement"
  /\ UNCHANGED <<mode, records, nPhases, phase, attempts, review, qa, checkpoints,
                 reached, skipped, vcLog, qaVars, toolVars>>

\* Mutants of ReviewSuccessor: a revision request that proceeds to the commit
\* step, and a FAILED verdict that retries on its own.
ReviewSuccessorCommitsRevision(v) ==
  CASE v = "APPROVED" -> "QA_CHECKING"
    [] v = "NEEDS_REVISION" -> "AWAITING_COMMIT"
    [] v = "FAILED" -> "BLOCKED_ON_HUMAN"

ReviewSuccessorRetriesFailed(v) ==
  CASE v = "APPROVED" -> "QA_CHECKING"
    [] v = "NEEDS_REVISION" -> "IMPLEMENTING"
    [] v = "FAILED" -> "IMPLEMENTING"

\* Where a Review Verdict sends the phase.
ReviewSuccessor(v) ==
  CASE v = "APPROVED" -> "QA_CHECKING"
    [] v = "NEEDS_REVISION" -> "IMPLEMENTING"
    [] v = "FAILED" -> "BLOCKED_ON_HUMAN"

\* The code-review role returns a verdict for the current attempt.
Review ==
  /\ pstate = "REVIEWING"
  /\ \E v \in ReviewVerdicts :
       /\ v = "NEEDS_REVISION" => attempts[phase] < MaxAttempts
       /\ review' = [review EXCEPT ![phase] =
                       [attempt |-> attempts[phase], verdict |-> v]]
       /\ IF ReviewSuccessor(v) = "IMPLEMENTING"
            THEN BeginAttempt(phase)
            ELSE /\ pstate' = ReviewSuccessor(v)
                 /\ UNCHANGED <<phase, attempts>>
  /\ lastActor' = "code-review"
  /\ UNCHANGED <<mode, records, nPhases, qa, checkpoints, reached, skipped, vcLog,
                 qaVars, toolVars>>

\* Mutant of QACheck: a FAIL report moves on to the next phase instead of
\* returning to the implementation of the same phase.
QACheckFailMovesOn ==
  /\ pstate = "QA_CHECKING"
  /\ \E s \in QAStatuses :
       /\ qa' = [qa EXCEPT ![phase] =
                   [attempt |-> attempts[phase], verdict |-> s]]
       /\ IF s = "FAIL"
            THEN /\ Advance
                 /\ UNCHANGED <<reached, records>>
            ELSE /\ pstate' = "AWAITING_COMMIT"
                 /\ reached' = reached \cup {phase}
                 /\ records' = [records EXCEPT ![phase] = @ + 1]
                 /\ UNCHANGED <<phase, attempts>>
  /\ lastActor' = "quality-assurance"
  /\ UNCHANGED <<mode, nPhases, review, checkpoints, skipped, vcLog, qaVars, toolVars>>

\* The quality-assurance role returns a report for the current attempt.
\* With PASS or ADVISORY the Conductor opens the commit step: it presents
\* the summary, writes the Phase Completion Record and the commit message,
\* and waits for the human.
QACheck ==
  /\ pstate = "QA_CHECKING"
  /\ \E s \in QAStatuses :
       /\ s = "FAIL" => attempts[phase] < MaxAttempts
       /\ qa' = [qa EXCEPT ![phase] =
                   [attempt |-> attempts[phase], verdict |-> s]]
       /\ IF s = "FAIL"
            THEN /\ BeginAttempt(phase)
                 /\ UNCHANGED <<reached, records>>
            ELSE /\ pstate' = "AWAITING_COMMIT"
                 /\ reached' = reached \cup {phase}
                 /\ records' = [records EXCEPT ![phase] = @ + 1]
                 /\ UNCHANGED <<phase, attempts>>
  /\ lastActor' = "quality-assurance"
  /\ UNCHANGED <<mode, nPhases, review, checkpoints, skipped, vcLog, qaVars, toolVars>>

\* The human commits the phase and tells the Conductor to continue.
UserCommits ==
  /\ pstate = "AWAITING_COMMIT"
  /\ vcLog' = Append(vcLog, [op |-> "commit", by |-> "operator"])
  /\ checkpoints' = checkpoints + 1
  /\ Advance
  /\ lastActor' = "human"
  /\ UNCHANGED <<mode, records, nPhases, review, qa, reached, skipped, qaVars, toolVars>>

\* After a FAILED review the Conductor stops and asks; the human gives
\* guidance and the same phase is implemented again.
HumanGuidance ==
  /\ pstate = "BLOCKED_ON_HUMAN"
  /\ attempts[phase] < MaxAttempts
  /\ BeginAttempt(phase)
  /\ lastActor' = "human"
  /\ UNCHANGED <<mode, records, nPhases, review, qa, checkpoints, reached, skipped,
                 vcLog, qaVars, toolVars>>

\* "Skip to next phase": move forward without implementing the current one.
SkipToNextPhase ==
  /\ pstate = "BLOCKED_ON_HUMAN"
  /\ skipped' = skipped \cup {phase}
  /\ Advance
  /\ lastActor' = "human"
  /\ UNCHANGED <<mode, records, nPhases, review, qa, checkpoints, reached, vcLog,
                 qaVars, toolVars>>

ProtoNext ==
  \/ StartPlanning
  \/ DraftPlan
  \/ RevisePlan
  \/ ApprovePlan
  \/ ImplementDone
  \/ Review
  \/ QACheck
  \/ UserCommits
  \/ HumanGuidance
  \/ SkipToNextPhase

Init == ProtoInit /\ vcLog = <<>> /\ QAIdle /\ ToolsIdle
Next == ProtoNext
Spec == Init /\ [][Next]_vars

(***************************************************************************)
(* Quality-Assurance verdict rules (quality_standards, edge_cases).        *)
(***************************************************************************)
MinCoverage == 70
AdvisoryFloor == 60

\* What the QA role can find in a diff.  A project with no testing
\* infrastructure has no tests to fail and no coverage to measure, and its
\* new functionality necessarily has no tests.
FindingsSpace ==
  { f \in [securityVuln : BOOLEAN, failingTest : BOOLEAN,
            lintBuildError : BOOLEAN, missingTests : BOOLEAN,
            hardcodedSecret : BOOLEAN, warnings : BOOLEAN,
            noTestInfra : BOOLEAN, coverage : 0..MaxCoverage] :
      f.noTestInfra => (f.missingTests /\ ~f.failingTest /\ f.coverage = 0) }

\* Automatic FAIL conditions; missing tests do not fail a project that has
\* no testing infrastructure at all.
AutomaticFail(f) ==
  \/ f.securityVuln
  \/ f.failingTest
  \/ f.lintBuildError
  \/ f.hardcodedSecret
  \/ f.missingTests /\ ~f.noTestInfra

\* Mutant of QAVerdict: low coverage is never more than a warning.
QAVerdictCoverageOnlyWarns(f) ==
  IF AutomaticFail(f) THEN "FAIL"
  ELSE IF f.noTestInfra THEN "ADVISORY"
  ELSE IF f.coverage >= MinCoverage /\ ~f.warnings THEN "PASS"
  ELSE "ADVISORY"

\* Mutant of QAVerdict: hardcoded secrets are reported as a warning only.
QAVerdictSecretsOnlyWarn(f) ==
  IF f.securityVuln \/ f.failingTest \/ f.lintBuildError
       \/ (f.missingTests /\ ~f.noTestInfra) THEN "FAIL"
  ELSE IF f.noTestInfra \/ f.hardcodedSecret THEN "ADVISORY"
  ELSE IF f.coverage >= MinCoverage /\ ~f.warnings THEN "PASS"
  ELSE IF f.coverage >= AdvisoryFloor THEN "ADVISORY"
  ELSE "FAIL"

\* The Status of the QA Report.
QAVerdict(f) ==
  IF AutomaticFail(f) THEN "FAIL"
  ELSE IF f.noTestInfra THEN "ADVISORY"
  ELSE IF f.coverage >= MinCoverage /\ ~f.warnings THEN "PASS"
  ELSE IF f.coverage >= AdvisoryFloor THEN "ADVISORY"
  ELSE "FAIL"

QAInit ==
  /\ findings \in FindingsSpace
  /\ qaStatus = "none"

\* The QA role evaluates the diff and returns its report.
QAEvaluate ==
  /\ qaStatus = "none"
  /\ qaStatus' = QAVerdict(findings)
  /\ UNCHANGED <<protoVars, vcLog, findings, toolVars>>

InitQA == ProtoIdle /\ vcLog = <<>> /\ QAInit /\ ToolsIdle
NextQA == QAEvaluate
SpecQA == InitQA /\ [][NextQA]_vars

(***************************************************************************)
(* Mode profiles (the rules directories of .roo): what a mode overrides.   *)
(***************************************************************************)
\* The five roles, as the workflow names the actor of a step.
Roles ==
  {"conductor", "planning", "implement", "code-review", "quality-assurance"}

\* The states of a feature request and of its phases.
PhaseTypes ==
  {"REQUESTED", "PLANNING", "AWAITING_PLAN_APPROVAL", "IMPLEMENTING",
   "REVIEWING", "QA_CHECKING", "AWAITING_COMMIT", "BLOCKED_ON_HUMAN",
   "COMPLETE"}

\* The role whose rules directory holds the mode.
ModeOwner(m) ==
  CASE m \in {"default", "strict", "rapid"} -> "conductor"
    [] m = "deep-research" -> "planning"
    [] m = "strict-tdd" -> "implement"
    [] m = "security-focused" -> "code-review"

\* The tools list in the header of a role definition.
tools(role) ==
  CASE role = "quality-assurance"
         -> {"runCommands", "edit", "search", "usages", "problems", "changes",
             "testFailure", "fetch"}
    [] role = "planning"
         -> {"search", "usages", "problems", "changes", "testFailure", "fetch",
             "githubRepo"}

StrictCoverage == 90
RapidCoverage == 60
StrictTddCoverage == 90

\* Mutant of ModeCoverage: rapid mode keeps the default minimum.
ModeCoverageNeverLowered(m) ==
  CASE m = "strict" -> StrictCoverage
    [] m = "strict-tdd" -> StrictTddCoverage
    [] OTHER -> MinCoverage

\* The minimum test coverage (percent) in force under a mode.
ModeCoverage(m) ==
  CASE m = "strict" -> StrictCoverage
    [] m = "rapid" -> RapidCoverage
    [] m = "strict-tdd" -> StrictTddCoverage
    [] OTHER -> MinCoverage

\* Default checks of the Quality Assurance phase a mode switches off.
ChecksSkipped(m) ==
  IF m = "rapid" THEN {"security scanning", "full test suite"} ELSE {}

(***************************************************************************)
(* Claims about the QA verdict (checked under SpecQA).                     *)
(***************************************************************************)
\* Nothing but coverage is at issue: no failing test, no security finding,
\* no lint error or warning, tests exist and can run.
OnlyCoverageAtIssue(f) ==
  /\ ~f.securityVuln
  /\ ~f.hardcodedSecret
  /\ ~f.failingTest
  /\ ~f.lintBuildError
  /\ ~f.missingTests
  /\ ~f.warnings
  /\ ~f.noTestInfra

C8_AnyConditionFails ==
  (qaStatus # "none"
     /\ (findings.securityVuln \/ findings.failingTest
           \/ findings.lintBuildError \/ findings.missingTests
           \/ findings.hardcodedSecret))
    => qaStatus = "FAIL"

\* C8 (amended): a security vulnerability, a failing test, a build-breaking
\* lint error or a hardcoded secret always gives FAIL, whatever the other
\* findings; missing tests give FAIL when the project has test
\* infrastructure, and in a project with no test infrastructure at all the
\* missing tests alone never give FAIL.
C8_AutomaticFailExceptNoInfra ==
  qaStatus # "none" =>
    /\ (findings.securityVuln \/ findings.failingTest
          \/ findings.lintBuildError \/ findings.hardcodedSecret)
         => qaStatus = "FAIL"
    /\ (findings.missingTests /\ ~findings.noTestInfra) => qaStatus = "FAIL"
    /\ (findings.noTestInfra /\ ~findings.securityVuln
          /\ ~findings.lintBuildError /\ ~findings.hardcodedSecret)
         => qaStatus # "FAIL"

C8_Witness ==
  /\ qaStatus = "FAIL"
  /\ findings.hardcodedSecret
  /\ ~findings.securityVuln
  /\ ~findings.failingTest
  /\ ~findings.lintBuildError
  /\ ~findings.missingTests
  /\ findings.coverage = MaxCoverage

(***************************************************************************)
(* Error Recovery System: the project directory and the scan.              *)
(***************************************************************************)
\* agentFiles of checkAgentFiles, in the order of the list.
AgentFiles ==
  <<"Conductor.agent.md", "planning-subagent.agent.md",
    "implement-subagent.agent.md", "code-review-subagent.agent.md",
    "quality-assurance-subagent.agent.md">>

Categories == {"all", "git", "agents", "tests", "deps"}

\* The checks treat the agent files alike, so it is enough to let the
\* first files of the list be absent and the next ones lack frontmatter.
AgentLayouts ==
  { [i \in 1..Len(AgentFiles) |->
       IF i <= m THEN "absent" ELSE IF i <= m + n THEN "invalid" ELSE "valid"] :
    m \in 0..MaxDefects, n \in 0..MaxDefects }

AgentDefects(a) == Cardinality({i \in DOMAIN a : a[i] # "valid"})

\* Deviations of a directory from HealthyTree outside README.md, .gitignore
\* and plans/, which vary freely.
Defects(t) ==
    (IF t.git # "clean" THEN 1 ELSE 0)
  + (IF t.gitUser THEN 0 ELSE 1)
  + AgentDefects(t.agents)
  + (IF t.pkg # "testScript" THEN 1 ELSE 0)
  + (IF t.pkg \in {"noScripts", "noTestScript", "testScript"} /\ ~t.framework
       THEN 1 ELSE 0)
  + (IF t.nodeModules THEN 0 ELSE 1)
  + (IF t.pytest THEN 1 ELSE 0)
  + (IF t.pom THEN 1 ELSE 0)

\* A manifest in the project root that no check of the tool looks at.  It is
\* varied only for directories without a package.json.
OtherManifests == {"none", "requirements.txt", "pyproject.toml", "build.gradle"}

Trees ==
  { t \in [git : {"none", "clean", "dirty"}, gitUser : BOOLEAN,
            agents : AgentLayouts,
            pkg : {"absent", "unparseable", "noScripts", "noTestScript",
                   "testScript"},
            framework : BOOLEAN, nodeModules : BOOLEAN,
            pytest : BOOLEAN, pom : BOOLEAN, manifest : OtherManifests,
            readme : BOOLEAN, gitignore : BOOLEAN, plans : BOOLEAN] :
      /\ Defects(t) <= MaxDefects
      /\ t.pkg \in {"absent", "unparseable"} => ~t.framework
      /\ t.manifest # "none" => t.pkg = "absent" }

Issue(id, severity, fixable) ==
  [id |-> id, severity |-> severity, fixable |-> fixable]

When(cond, issue) == IF cond THEN <<issue>> ELSE <<>>

checkGitIssues(t) ==
     When(t.git = "none", Issue("git_not_initialized", "high", TRUE))
  \o When(~t.gitUser, Issue("git_config_missing", "medium", TRUE))
  \o When(t.git = "dirty", Issue("uncommitted_changes", "info", FALSE))

RECURSIVE InvalidAgents(_, _)
InvalidAgents(t, i) ==
  IF i > Len(AgentFiles) THEN <<>>
  ELSE When(t.agents[i] = "invalid",
            Issue("invalid_agent_" \o AgentFiles[i], "medium", FALSE))
       \o InvalidAgents(t, i + 1)

\* Mutant of checkAgentFiles: missing agent files are not offered a fix.
checkAgentFilesManualOnly(t) ==
     When(\E i \in DOMAIN t.agents : t.agents[i] = "absent",
          Issue("missing_agent_files", "high", FALSE))
  \o InvalidAgents(t, 1)

checkAgentFiles(t) ==
     When(\E i \in DOMAIN t.agents : t.agents[i] = "absent",
          Issue("missing_agent_files", "high", TRUE))
  \o InvalidAgents(t, 1)

PkgParsed(t) == t.pkg \in {"noScripts", "noTestScript", "testScript"}

hasTestSetup(t) ==
  IF PkgParsed(t) THEN t.pkg = "testScript" ELSE t.pytest \/ t.pom

checkTestSetup(t) ==
     When(PkgParsed(t) /\ t.pkg # "testScript",
          Issue("no_test_script", "medium", TRUE))
  \o When(PkgParsed(t) /\ ~t.framework,
          Issue("no_test_framework", "high", TRUE))
  \o When(~hasTestSetup(t) /\ t.pkg = "absent" /\ ~t.pytest,
          Issue("no_test_setup", "high", FALSE))

checkDependencies(t) ==
  When(PkgParsed(t) /\ ~t.nodeModules,
       Issue("dependencies_not_installed", "high", TRUE))

checkProjectStructure(t) ==
     When(~t.readme, Issue("no_readme", "low", TRUE))
  \o When(~t.gitignore, Issue("no_gitignore", "medium", TRUE))

checkPlansDirectory(t) ==
  When(~t.plans, Issue("no_plans_directory", "info", TRUE))

\* The checks scanForIssues runs for a category, in its order.
Checks(category) ==
     (IF category \in {"all", "git"} THEN <<"git">> ELSE <<>>)
  \o (IF category \in {"all", "agents"} THEN <<"agents">> ELSE <<>>)
  \o (IF category \in {"all", "tests"} THEN <<"tests">> ELSE <<>>)
  \o (IF category \in {"all", "deps"} THEN <<"deps">> ELSE <<>>)
  \o (IF category = "all" THEN <<"structure", "plans">> ELSE <<>>)

\* JSON.parse of package.json throws in checkTestSetup and
\* checkDependencies when the file is not valid JSON.
CheckThrows(check, t) ==
  check \in {"tests", "deps"} /\ t.pkg = "unparseable"

CheckIssues(check, t) ==
  CASE check = "git" -> checkGitIssues(t)
    [] check = "agents" -> checkAgentFiles(t)
    [] check = "tests" -> checkTestSetup(t)
    [] check = "deps" -> checkDependencies(t)
    [] check = "structure" -> checkProjectStructure(t)
    [] check = "plans" -> checkPlansDirectory(t)

\* Mutant of RunChecks: the plans check reports nothing once another check
\* has found an issue.
RECURSIVE RunChecksPlansReadsList(_, _, _)
RunChecksPlansReadsList(checks, t, found) ==
  IF checks = <<>> THEN [issues |-> found, threw |-> FALSE]
  ELSE IF CheckThrows(Head(checks), t) THEN [issues |-> found, threw |-> TRUE]
  ELSE RunChecksPlansReadsList(Tail(checks), t,
         found \o (IF Head(checks) = "plans" /\ found # <<>> THEN <<>>
                   ELSE CheckIssues(Head(checks), t)))

\* Runs the checks one after the other onto the list found so far; a
\* throwing check ends the scan.
RECURSIVE RunChecks(_, _, _)
RunChecks(checks, t, found) ==
  IF checks = <<>> THEN [issues |-> found, threw |-> FALSE]
  ELSE IF CheckThrows(Head(checks), t) THEN [issues |-> found, threw |-> TRUE]
  ELSE RunChecks(Tail(checks), t, found \o CheckIssues(Head(checks), t))

scanForIssues(t, category, found) == RunChecks(Checks(category), t, found)

(***************************************************************************)
(* Error Recovery System: one run of the tool after the other.             *)
(***************************************************************************)
\* Mutant of constructor: the list of the previous run is kept.
constructorKeepsIssues(old) == old

\* this.issues = [] of the constructor; every run of the CLI constructs a
\* new ErrorRecoverySystem.
constructor(old) == <<>>

\* Mutant of Fixable: issues of severity info are never queued.
FixableSkipsInfo(list) ==
  SelectSeq(list, LAMBDA issue : issue.fixable /\ issue.severity # "info")

Fixable(list) == SelectSeq(list, LAMBDA issue : issue.fixable)

\* Writing a file into a clean work tree leaves uncommitted changes.
Touch(t) == IF t.git = "clean" THEN [t EXCEPT !.git = "dirty"] ELSE t

Outcome(t, ok, asked, ops) ==
  [tree |-> t, ok |-> ok, asked |-> asked, ops |-> ops]

ByTool(op) == [op |-> op, by |-> "error-recovery"]

\* The possible results of issue.fix() on directory t: the directory it
\* leaves, whether it returned or threw, the questions it asked and the
\* version-control operations it ran.  Subprocesses (git, npm) may fail.
FixOutcomes(id, t) ==
  CASE id = "git_not_initialized" ->
         { Outcome([t EXCEPT !.git = "dirty"], TRUE, 0,
                   <<ByTool("init"), ByTool("add")>>),
           Outcome(t, FALSE, 0, <<>>) }
    [] id = "git_config_missing" ->
         IF t.git = "none"
           THEN { Outcome(t, FALSE, 2, <<>>) }
           ELSE { Outcome([t EXCEPT !.gitUser = TRUE], TRUE, 2, <<>>) }
    [] id = "missing_agent_files" ->
         { Outcome(t, TRUE, 0, <<>>) }
    [] id = "no_test_script" ->
         { Outcome(Touch([t EXCEPT !.pkg = "testScript"]), TRUE, 0, <<>>) }
    [] id = "no_test_framework" ->
         { Outcome(t, FALSE, 0, <<>>),
           IF t.pkg = "noScripts"
             THEN Outcome(Touch([t EXCEPT !.framework = TRUE,
                                          !.nodeModules = TRUE]),
                          FALSE, 0, <<>>)
             ELSE Outcome(Touch([t EXCEPT !.framework = TRUE,
                                          !.nodeModules = TRUE,
                                          !.pkg = "testScript"]),
                          TRUE, 0, <<>>) }
    [] id = "dependencies_not_installed" ->
         { Outcome(Touch([t EXCEPT !.nodeModules = TRUE]), TRUE, 0, <<>>),
           Outcome(t, FALSE, 0, <<>>) }
    [] id = "no_readme" ->
         { Outcome(Touch([t EXCEPT !.readme = TRUE]), TRUE, 0, <<>>) }
    [] id = "no_gitignore" ->
         { Outcome(Touch([t EXCEPT !.gitignore = TRUE]), TRUE, 0, <<>>) }
    [] id = "no_plans_directory" ->
         { Outcome(Touch([t EXCEPT !.plans = TRUE]), TRUE, 0, <<>>) }

ERInit ==
  /\ tree \in Trees
  /\ erCategory \in Categories
  /\ erOpts = [scan |-> FALSE, auto |-> FALSE]
  /\ erPc = "idle"
  /\ scanned = HealthyTree
  /\ issues = <<>>
  /\ fixes = <<>>
  /\ fixIdx = 0
  /\ prompts = 0
  /\ prev = NoRun

\* Mutant of ERStart: --auto given together with --scan goes on to
\* applyFixes.
ERStartAutoOverridesScan ==
  /\ erPc \in {"idle", "done", "crashed"}
  /\ \E scan \in BOOLEAN, auto \in BOOLEAN :
        LET result == scanForIssues(tree, erCategory, constructor(issues))
            stop == scan /\ ~auto IN
        /\ erOpts' = [scan |-> scan, auto |-> auto]
        /\ issues' = result.issues
        /\ erPc' = IF result.threw THEN "crashed"
                   ELSE IF result.issues = <<>> \/ stop THEN "done"
                   ELSE IF Fixable(result.issues) = <<>> THEN "done"
                   ELSE "fixing"
        /\ fixIdx' = IF ~result.threw /\ ~stop
                          /\ Fixable(result.issues) # <<>>
                       THEN 1 ELSE 0
  /\ prev' = IF erPc = "idle" THEN NoRun
             ELSE [ran |-> TRUE, scan |-> erOpts.scan, auto |-> erOpts.auto,
                   outcome |-> erPc, issues |-> issues, tree |-> scanned]
  /\ scanned' = tree
  /\ fixes' = <<>>
  /\ prompts' = 0
  /\ UNCHANGED <<tree, erCategory, protoVars, vcLog, qaVars, toolsButER>>

\* node tools/error-recovery.js [--scan] [--auto] --category c: the
\* constructor, scanForIssues and run() up to the call of applyFixes.
ERStart ==
  /\ erPc \in {"idle", "done", "crashed"}
  /\ \E scan \in BOOLEAN, auto \in BOOLEAN :
        LET result == scanForIssues(tree, erCategory, constructor(issues)) IN
        /\ erOpts' = [scan |-> scan, auto |-> auto]
        /\ issues' = result.issues
        /\ erPc' = IF result.threw THEN "crashed"
                   ELSE IF result.issues = <<>> \/ scan THEN "done"
                   ELSE IF Fixable(result.issues) = <<>> THEN "done"
                   ELSE "fixing"
        /\ fixIdx' = IF ~result.threw /\ ~scan
                          /\ Fixable(result.issues) # <<>>
                       THEN 1 ELSE 0
  /\ prev' = IF erPc = "idle" THEN NoRun
             ELSE [ran |-> TRUE, scan |-> erOpts.scan, auto |-> erOpts.auto,
                   outcome |-> erPc, issues |-> issues, tree |-> scanned]
  /\ scanned' = tree
  /\ fixes' = <<>>
  /\ prompts' = 0
  /\ UNCHANGED <<tree, erCategory, protoVars, vcLog, qaVars, toolsButER>>

\* The position after one iteration of the loop of applyFixes.
AfterIssue ==
  /\ fixIdx' = IF fixIdx < Len(Fixable(issues)) THEN fixIdx + 1 ELSE 0
  /\ erPc' = IF fixIdx < Len(Fixable(issues)) THEN "fixing" ELSE "done"

\* applyFixes, one iteration: the operator answers anything but "y".
ERSkipFix ==
  /\ erPc = "fixing"
  /\ ~erOpts.auto
  /\ prompts' = prompts + 1
  /\ AfterIssue
  /\ UNCHANGED <<tree, erCategory, erOpts, scanned, issues, fixes, prev,
                 protoVars, vcLog, qaVars, toolsButER>>

\* Mutant of ERApplyFix: a remediation that throws ends applyFixes.
ERApplyFixStopsOnFailure ==
  /\ erPc = "fixing"
  /\ \E out \in FixOutcomes(Fixable(issues)[fixIdx].id, tree) :
        /\ tree' = out.tree
        /\ vcLog' = vcLog \o out.ops
        /\ fixes' = IF out.ok
                      THEN Append(fixes, Fixable(issues)[fixIdx].id)
                      ELSE fixes
        /\ prompts' = prompts + out.asked + (IF erOpts.auto THEN 0 ELSE 1)
        /\ IF out.ok THEN AfterIssue ELSE fixIdx' = 0 /\ erPc' = "crashed"
  /\ UNCHANGED <<erCategory, erOpts, scanned, issues, prev, protoVars,
                 qaVars, toolsButER>>

\* applyFixes, one iteration: auto-fix, or the operator answers "y".
ERApplyFix ==
  /\ erPc = "fixing"
  /\ \E out \in FixOutcomes(Fixable(issues)[fixIdx].id, tree) :
        /\ tree' = out.tree
        /\ vcLog' = vcLog \o out.ops
        /\ fixes' = IF out.ok
                      THEN Append(fixes, Fixable(issues)[fixIdx].id)
                      ELSE fixes
        /\ prompts' = prompts + out.asked + (IF erOpts.auto THEN 0 ELSE 1)
  /\ AfterIssue
  /\ UNCHANGED <<erCategory, erOpts, scanned, issues, prev, protoVars,
                 qaVars, toolsButER>>

ERNext ==
  \/ ERStart
  \/ ERSkipFix
  \/ ERApplyFix

InitRecovery ==
  /\ ProtoIdle /\ vcLog = <<>> /\ QAIdle
  /\ ERInit /\ WizIdle /\ BPIdle /\ APIIdle /\ ShIdle /\ SWIdle
SpecRecovery == InitRecovery /\ [][ERNext]_vars

\* Runs that only scan: --scan on the command line, and the final check of
\* the Setup Wizard.
ERScan == ERStart /\ erOpts' = [scan |-> TRUE, auto |-> FALSE]

SpecScan == InitRecovery /\ [][ERScan]_vars

(***************************************************************************)
(* Project Initialization Wizard (tools/project-init.js).                  *)
(***************************************************************************)
types ==
  <<"web-app", "rest-api", "graphql-api", "cli-tool", "microservice",
    "library", "mobile-backend", "other">>
languages ==
  <<"nodejs", "python", "java", "go", "ruby", "dotnet", "php", "other">>
frameworks == <<"react", "vue", "angular", "nextjs", "svelte", "none">>
patterns ==
  <<"monolithic", "microservices", "serverless", "layered", "event-driven",
    "cqrs">>
caches == <<"redis", "memcached", "in-memory", "cdn">>
queues == <<"rabbitmq", "kafka", "aws-sqs", "redis-queue", "other">>
databases ==
  <<"postgresql", "mysql", "mongodb", "sqlite", "redis", "dynamodb",
    "cassandra", "multiple">>
authTypes == <<"jwt", "oauth2", "session", "api-key", "saml", "multiple">>
deployTargets ==
  <<"docker", "kubernetes", "aws", "azure", "gcp", "heroku", "vercel",
    "traditional">>
ciPlatforms == <<"github-actions", "gitlab-ci", "jenkins", "circleci", "travis">>
envSetups ==
  << <<"development", "staging", "production">>,
     <<"development", "production">>, <<"development">>, <<>> >>

\* Mutant of Pick: an answer that names no entry leaves the field empty.
PickNoDefault(list, choice, default) ==
  IF choice \in 1..Len(list) THEN list[choice] ELSE ""

\* list[parseInt(choice) - 1] || default.  parseInt gives NaN for an empty
\* or non-numeric answer and list[NaN - 1] is undefined, as list[-1] is:
\* choice 0 stands for these answers too.
Pick(list, choice, default) ==
  IF choice \in 1..Len(list) THEN list[choice] ELSE default

\* The answers the operator gives to the numbered menus.
TypeChoices == {-1, 0, 1, 4, 9}
LangChoices == {0, 1, 2}
ArchChoices == {0, 2}
\* Answers to the caching and message queue questions of the architecture
\* step: whether each is used, and the menu choices when it is.  They are
\* varied with the default pattern only.
ArchitectureAnswers ==
  { [hasCache |-> FALSE, cacheChoice |-> 0, hasQueue |-> FALSE, queueChoice |-> 0],
    [hasCache |-> TRUE, cacheChoice |-> 0, hasQueue |-> TRUE, queueChoice |-> 2] }
DbChoices == {0, 1, 3}
AuthChoices == {0}
TargetChoices == { {}, {1}, {2}, {6}, {1, 6} }
CiChoices == {1, 3}
EnvChoices == {0, 3}

\* Lines typed at the "Endpoint n:" prompt: the method word, whether the
\* path starts with "/", whether " - " follows, and the description.
EndpointLines ==
  { [method |-> "GET", slash |-> TRUE, path |-> "/api/users", dash |-> TRUE,
     desc |-> "Get all users"],
    [method |-> "post", slash |-> TRUE, path |-> "/api/users", dash |-> TRUE,
     desc |-> "Create user"],
    [method |-> "GET", slash |-> FALSE, path |-> "api/users", dash |-> TRUE,
     desc |-> "Get all users"] }

toUpperCase(m) ==
  CASE m = "get" -> "GET"
    [] m = "post" -> "POST"
    [] m = "put" -> "PUT"
    [] m = "patch" -> "PATCH"
    [] m = "delete" -> "DELETE"
    [] OTHER -> m

\* Mutant of ParseEndpoint: the path need not start with "/".
ParseEndpointAnyPath(line) ==
  IF /\ toUpperCase(line.method) \in {"GET", "POST", "PUT", "PATCH", "DELETE"}
     /\ line.dash
     /\ line.desc # ""
    THEN << [method |-> toUpperCase(line.method), path |-> line.path,
             description |-> line.desc] >>
    ELSE <<>>

\* endpoint.match(/^(GET|POST|PUT|PATCH|DELETE)\s+(\/[^\s]*)\s*-\s*(.+)$/i)
ParseEndpoint(line) ==
  IF /\ toUpperCase(line.method) \in {"GET", "POST", "PUT", "PATCH", "DELETE"}
     /\ line.slash
     /\ line.dash
     /\ line.desc # ""
    THEN << [method |-> toUpperCase(line.method), path |-> line.path,
             description |-> line.desc] >>
    ELSE <<>>

\* Lines typed at the "Variable n:" prompt.
VariableLines ==
  { [name |-> "DATABASE_URL", upper |-> TRUE, dash |-> TRUE,
     desc |-> "connection string"],
    [name |-> "database_url", upper |-> FALSE, dash |-> TRUE,
     desc |-> "connection string"] }

\* envVar.match(/^([A-Z_]+)\s*-\s*(.+)$/)
ParseVariable(line) ==
  IF line.upper /\ line.dash /\ line.desc # ""
    THEN << [name |-> line.name, description |-> line.desc] >>
    ELSE <<>>

RECURSIVE ParseAll(_, _)
ParseAll(lines, kind) ==
  IF lines = <<>> THEN <<>>
  ELSE (IF kind = "endpoint" THEN ParseEndpoint(Head(lines))
        ELSE ParseVariable(Head(lines)))
       \o ParseAll(Tail(lines), kind)

\* What the operator types before the empty line that ends a loop.
Typed(lineSet) == UNION { [1..n -> lineSet] : n \in 0..MaxLines }

WizInit ==
  /\ wizPc = "gatherProjectInfo"
  /\ config = EmptyConfig
  /\ projectDir \in { [git |-> g, files |-> NoFiles] : g \in BOOLEAN }

WizFrame == UNCHANGED <<projectDir, protoVars, vcLog, qaVars, toolsButWiz>>

gatherProjectInfo ==
  /\ wizPc = "gatherProjectInfo"
  /\ \E typeChoice \in TypeChoices, langChoice \in LangChoices,
        frontendChoice \in {0, 1} :
       LET type == Pick(types, typeChoice, "other") IN
       /\ type # "web-app" => frontendChoice = 0
       /\ config' = [config EXCEPT
             !.type = type,
             !.language = Pick(languages, langChoice, "other"),
             !.frontend = IF type = "web-app"
                            THEN Pick(frameworks, frontendChoice, "none")
                            ELSE ""]
  /\ wizPc' = "defineArchitecture"
  /\ WizFrame

defineArchitecture ==
  /\ wizPc = "defineArchitecture"
  /\ \E archChoice \in ArchChoices, a \in ArchitectureAnswers :
       /\ archChoice = 2 => ~a.hasCache
       /\ config' = [config EXCEPT
             !.pattern = Pick(patterns, archChoice, "layered"),
             !.cache = IF a.hasCache THEN Pick(caches, a.cacheChoice, "redis")
                       ELSE "",
             !.messageQueue =
                IF a.hasQueue THEN Pick(queues, a.queueChoice, "rabbitmq")
                ELSE ""]
  /\ wizPc' = "defineAPIs"
  /\ WizFrame

defineAPIs ==
  /\ wizPc = "defineAPIs"
  /\ IF config.type \in {"cli-tool", "library"}
       THEN UNCHANGED config
       ELSE \E hasAPI \in BOOLEAN, lines \in Typed(EndpointLines) :
              /\ ~hasAPI => lines = <<>>
              /\ config' = [config EXCEPT !.apis = ParseAll(lines, "endpoint")]
  /\ wizPc' = "defineDatabaseRequirements"
  /\ WizFrame

\* Answers to "Entities:", split at the commas.
EntityAnswers == { <<>>, << "users" >> }

defineDatabaseRequirements ==
  /\ wizPc = "defineDatabaseRequirements"
  /\ \E needsDB \in BOOLEAN, dbChoice \in DbChoices,
        entities \in EntityAnswers :
       /\ ~needsDB => (dbChoice = 0 /\ entities = <<>>)
       /\ config' = IF needsDB
            THEN [config EXCEPT
                    !.dbType = Pick(databases, dbChoice, "postgresql"),
                    !.entities = entities]
            ELSE [config EXCEPT !.dbType = "none"]
  /\ wizPc' = "defineAuthentication"
  /\ WizFrame

defineAuthentication ==
  /\ wizPc = "defineAuthentication"
  /\ \E needsAuth \in BOOLEAN, authChoice \in AuthChoices :
       config' = [config EXCEPT
         !.authType = IF needsAuth THEN Pick(authTypes, authChoice, "jwt")
                      ELSE "none"]
  /\ wizPc' = "defineDeploymentTargets"
  /\ WizFrame

defineDeploymentTargets ==
  /\ wizPc = "defineDeploymentTargets"
  /\ \E deployChoice \in TargetChoices, needsCI \in BOOLEAN,
        ciChoice \in CiChoices :
       LET targets == { Pick(deployTargets, c, "") : c \in deployChoice }
                        \ {""} IN
       /\ ~needsCI => ciChoice = 1
       /\ config' = [config EXCEPT
             !.targets = targets,
             !.cicd = IF needsCI
                        THEN Pick(ciPlatforms, ciChoice, "github-actions")
                        ELSE "",
             !.docker = ("docker" \in targets \/ "kubernetes" \in targets)]
  /\ wizPc' = "defineEnvironment"
  /\ WizFrame

defineEnvironment ==
  /\ wizPc = "defineEnvironment"
  /\ \E lines \in Typed(VariableLines), envChoice \in EnvChoices :
       config' = [config EXCEPT
         !.variables = ParseAll(lines, "variable"),
         !.environments =
            Pick(envSetups, envChoice, <<"development", "production">>)]
  /\ wizPc' = "confirm"
  /\ WizFrame

\* git init, git add ., git commit -m "Initial commit: ..." of initializeGit.
CommitOps(by) ==
  <<[op |-> "init", by |-> by], [op |-> "add", by |-> by],
    [op |-> "commit", by |-> by]>>

\* Mutant of confirm: the project directory is created before the question.
confirmAfterCreating ==
  /\ wizPc = "confirm"
  /\ \E confirmed \in BOOLEAN :
       wizPc' = IF confirmed THEN "createProjectStructure" ELSE "cancelled"
  /\ projectDir' = [projectDir EXCEPT !.files.blueprint = TRUE]
  /\ UNCHANGED <<config, protoVars, vcLog, qaVars, toolsButWiz>>

\* reviewConfiguration and the final question of run().
confirm ==
  /\ wizPc = "confirm"
  /\ \E confirmed \in BOOLEAN :
       wizPc' = IF confirmed THEN "createProjectStructure" ELSE "cancelled"
  /\ UNCHANGED config
  /\ WizFrame

\* Mutant of createBlueprintContent: the schema section is always written.
createBlueprintContentAlwaysSchema(c) ==
  { "Project Overview", "Technology Stack", "Database Schema" }
    \cup (IF Len(c.apis) > 0 THEN { "API Endpoints" } ELSE {})
    \cup (IF c.authType # "none"
            THEN { "Authentication & Authorization" } ELSE {})

\* The headings of PROJECT-BLUEPRINT.md; all but the first two depend on
\* the answers.
createBlueprintContent(c) ==
  { "Project Overview", "Technology Stack" }
    \cup (IF Len(c.apis) > 0 THEN { "API Endpoints" } ELSE {})
    \cup (IF c.dbType # "none" /\ Len(c.entities) > 0
            THEN { "Database Schema" } ELSE {})
    \cup (IF c.authType # "none"
            THEN { "Authentication & Authorization" } ELSE {})

\* Mutant of GeneratedFiles: the database service always runs postgres.
GeneratedFilesPostgresImage(c) ==
  [blueprint |-> TRUE, sections |-> createBlueprintContent(c), gitignore |-> TRUE, readme |-> TRUE,
   envExample |-> TRUE,
   dockerfile |-> IF ~c.docker THEN "none"
                  ELSE IF c.language = "nodejs" THEN "node"
                  ELSE IF c.language = "python" THEN "python"
                  ELSE "none",
   compose |-> c.docker,
   composeDb |-> IF c.docker /\ c.dbType # "none" THEN "postgres:latest"
                 ELSE "none",
   ciWorkflow |-> (c.cicd = "github-actions")]

\* The files generateBlueprint and generateTemplates write for a config.
\* composeDb is the image of the db service of docker-compose.yml ("none"
\* without that service).
GeneratedFiles(c) ==
  [blueprint |-> TRUE, sections |-> createBlueprintContent(c), gitignore |-> TRUE, readme |-> TRUE,
   envExample |-> TRUE,
   dockerfile |-> IF ~c.docker THEN "none"
                  ELSE IF c.language = "nodejs" THEN "node"
                  ELSE IF c.language = "python" THEN "python"
                  ELSE "none",
   compose |-> c.docker,
   composeDb |-> IF c.docker /\ c.dbType # "none" THEN c.dbType \o ":latest"
                 ELSE "none",
   ciWorkflow |-> (c.cicd = "github-actions")]

\* createProjectStructure, generateBlueprint, generateTemplates; a file
\* system error ends run() in its catch block.
createProjectStructure ==
  /\ wizPc = "createProjectStructure"
  /\ \/ /\ projectDir' = [projectDir EXCEPT !.files = GeneratedFiles(config)]
        /\ wizPc' = "initializeGit"
     \/ /\ wizPc' = "failed"
        /\ UNCHANGED projectDir
  /\ UNCHANGED <<config, protoVars, vcLog, qaVars, toolsButWiz>>

\* initializeGit and showCompletionMessage; a failing git command is
\* caught and reported as "skipped".
initializeGit ==
  /\ wizPc = "initializeGit"
  /\ IF projectDir.git
       THEN UNCHANGED <<projectDir, vcLog>>
       ELSE \E done \in 0..Len(CommitOps("project-init")) :
              /\ vcLog' = vcLog \o SubSeq(CommitOps("project-init"), 1, done)
              /\ projectDir' = [projectDir EXCEPT !.git = (done >= 1)]
  /\ wizPc' = "complete"
  /\ UNCHANGED <<config, protoVars, qaVars, toolsButWiz>>

WizNext ==
  \/ gatherProjectInfo
  \/ defineArchitecture
  \/ defineAPIs
  \/ defineDatabaseRequirements
  \/ defineAuthentication
  \/ defineDeploymentTargets
  \/ defineEnvironment
  \/ confirm
  \/ createProjectStructure
  \/ initializeGit

InitProjectInit ==
  /\ ProtoIdle /\ vcLog = <<>> /\ QAIdle
  /\ ERIdle /\ WizInit /\ BPIdle /\ APIIdle /\ ShIdle /\ SWIdle
SpecProjectInit == InitProjectInit /\ [][WizNext]_vars

(***************************************************************************)
(* Project Initialization Wizard: defineAPIs prompt by prompt.             *)
(***************************************************************************)
\* What the operator may type at an "Endpoint n:" prompt.
Answers == EndpointLines \cup {NoLine}

\* run() enters defineAPIs with the answers of steps 1 and 2 recorded.
APIInit ==
  /\ wizPc = "defineAPIs"
  /\ \E typeChoice \in TypeChoices :
       config = [EmptyConfig EXCEPT !.type = Pick(types, typeChoice, "other")]
  /\ projectDir = [git |-> FALSE, files |-> NoFiles]
  /\ apiPc = "gate"
  /\ endpoint = NoLine
  /\ counter = 0

APIReturn ==
  /\ apiPc' = "returned"
  /\ wizPc' = "defineDatabaseRequirements"

\* The skip for CLI tools and libraries, the yes/no question and the first
\* prompt.
apiGate ==
  /\ apiPc = "gate"
  /\ IF config.type \in {"cli-tool", "library"}
       THEN APIReturn /\ UNCHANGED <<endpoint, counter>>
       ELSE \E hasAPI \in BOOLEAN :
              IF ~hasAPI
                THEN APIReturn /\ UNCHANGED <<endpoint, counter>>
                ELSE /\ endpoint' \in Answers
                     /\ counter' = 2
                     /\ apiPc' = "loop"
                     /\ UNCHANGED wizPc
  /\ UNCHANGED <<config, projectDir, protoVars, vcLog, qaVars, toolsButAPI>>

\* One turn of while (endpoint): the match, the push and the next prompt.
apiLoop ==
  /\ apiPc = "loop"
  /\ endpoint # NoLine
  /\ config' = [config EXCEPT !.apis = @ \o ParseEndpoint(endpoint)]
  /\ endpoint' \in Answers
  /\ counter > MaxEndpoints => endpoint' = NoLine
  /\ counter' = counter + 1
  /\ UNCHANGED <<apiPc, wizPc, projectDir, protoVars, vcLog, qaVars, toolsButAPI>>

\* The empty answer ends the loop; the follow-up questions change no field
\* that is modelled.
apiFinish ==
  /\ apiPc = "loop"
  /\ endpoint = NoLine
  /\ APIReturn
  /\ UNCHANGED <<endpoint, counter, config, projectDir, protoVars, vcLog,
                 qaVars, toolsButAPI>>

APINext == apiGate \/ apiLoop \/ apiFinish

InitDefineAPIs ==
  /\ ProtoIdle /\ vcLog = <<>> /\ QAIdle
  /\ ERIdle /\ BPIdle /\ APIInit /\ ShIdle /\ SWIdle

SpecDefineAPIs == InitDefineAPIs /\ [][APINext]_vars

(***************************************************************************)
(* Blueprint Generator (tools/blueprint-generator.js): the analysis.       *)
(***************************************************************************)
\* d.toLowerCase() on the dependency names used here.
toLowerCase(d) ==
  CASE d = "Express" -> "express"
    [] d = "GraphQL-Core" -> "graphql-core"
    [] d = "Prisma" -> "prisma"
    [] OTHER -> d

\* d.includes(part): part occurs in d, letter case respected.
includes(d, part) ==
  \E i \in 1..(Len(d) - Len(part) + 1) :
    SubSeq(d, i, i + Len(part) - 1) = part

LabelIf(cond, label) == IF cond THEN <<label>> ELSE <<>>

\* n dependencies that belong to no pattern table.
Filler(n) == [i \in 1..n |-> "pkg-" \o ToString(i)]

\* Key lists of "dependencies" of a package.json.
RuntimeLists ==
  { <<"express">>, <<"express", "jest">>, <<"Express", "graphql-tag">>,
    <<"react", "pg">>, <<"GraphQL-Core", "Prisma">> }
    \cup { Filler(n) : n \in 0..MaxDeps } \cup { Filler(20) }

\* Key lists of "devDependencies" of a package.json.
DevelopmentLists ==
  { <<"jest">>, <<"@testing-library/react">> }
    \cup { Filler(n) : n \in 0..MaxDeps }

\* Contents of a requirements.txt: the package of each line, what follows
\* it, and whether the line is a comment.
RequirementFiles ==
  { <<>>,
    << [pkg |-> "flask", rest |-> "==2.0", comment |-> FALSE] >>,
    << [pkg |-> "", rest |-> "# testing", comment |-> TRUE],
       [pkg |-> "pytest", rest |-> ">=7", comment |-> FALSE] >> }

\* this.excludePatterns.
excludePatterns ==
  {"node_modules", ".git", "dist", "build", "coverage", "*.log", ".env", "plans"}

\* Whether the regular expression made of pattern from position j on, with
\* every * replaced by .*, matches name from position i on; a . of the
\* pattern stands for any one character, and the match may end anywhere.
RECURSIVE Matches(_, _, _, _)
Matches(name, i, pattern, j) ==
  IF j > Len(pattern) THEN TRUE
  ELSE IF SubSeq(pattern, j, j) = "*"
    THEN \E k \in i..(Len(name) + 1) : Matches(name, k, pattern, j + 1)
  ELSE IF i > Len(name) THEN FALSE
  ELSE IF SubSeq(pattern, j, j) = "."
    THEN Matches(name, i + 1, pattern, j + 1)
  ELSE /\ SubSeq(name, i, i) = SubSeq(pattern, j, j)
       /\ Matches(name, i + 1, pattern, j + 1)

\* new RegExp(pattern.replace(/\*/g, '.*')).test(name): the expression is
\* not anchored, so the match may start anywhere.
regexTest(name, pattern) ==
  \E i \in 1..(Len(name) + 1) : Matches(name, i, pattern, 1)

\* Mutant of shouldExclude: a name is excluded only when it is a pattern.
shouldExcludeExactOnly(name) ==
  \E pattern \in excludePatterns : name = pattern

shouldExclude(name) ==
  \E pattern \in excludePatterns :
    IF includes(pattern, "*") THEN regexTest(name, pattern)
    ELSE name = pattern \/ includes(name, pattern)

\* All orders fs.readdirSync can return the entries of a directory in.
Readdir(entries) ==
  { list \in [1..Cardinality(entries) -> entries] :
      \A i, j \in 1..Cardinality(entries) : list[i] = list[j] => i = j }

File(name) == [name |-> name, type |-> "file", children |-> <<>>]

Dir(name, children) == [name |-> name, type |-> "directory", children |-> children]

\* Listings of the root directory: src/ holds lib/, app.js and index.js,
\* docs/ and node_modules/ are empty.
Listings ==
  { <<>> } \cup
  UNION { Readdir({ Dir("src", inner), Dir("docs", <<>>),
                    Dir("node_modules", <<>>), File("main.js") }) :
            inner \in Readdir({ Dir("lib", <<>>), File("app.js"),
                                File("index.js") }) }

\* Entries whose names hold an exclude pattern as a part, or nearly do.
PruningEntries ==
  << Dir(".github", <<>>), Dir("logs", <<>>), Dir("rebuild", <<>>),
     Dir("src", << File("app.js"), File("debug.log") >>),
     File(".env.example"), File("app.log"), File("changelog.md"),
     File("main.js") >>

\* Root listings made of some of them, in that order.
PruningListings ==
  { SelectSeq(PruningEntries, LAMBDA e : e.name \in chosen) :
      chosen \in SUBSET { PruningEntries[i].name : i \in 1..Len(PruningEntries) } }

\* Base names of the directory the generator is started in.
RootNames == {"project", "build", "my-plans"}

\* The directories the generator is run in.  Dependency lists are those of
\* a package.json that parses; lines are those of a requirements.txt.
\* pyproject and gradle say whether pyproject.toml and build.gradle exist;
\* they are varied in the directories without package.json dependencies.
\* entries is what readdirSync returns for the root, apart from the files
\* named by the other fields.
UnlistedDirectories ==
  { d \in [packageJson : {"absent", "ok", "unparseable"},
            runtime : RuntimeLists, development : DevelopmentLists,
            requirements : BOOLEAN, lines : RequirementFiles,
            pom : BOOLEAN, composer : {"absent", "ok", "unparseable"},
            readme : BOOLEAN, gitignore : BOOLEAN,
            dockerfile : BOOLEAN, workflows : BOOLEAN,
            pyproject : BOOLEAN, gradle : BOOLEAN, entries : { <<>> },
            gemfile : {FALSE}, goMod : {FALSE}, cargo : {FALSE},
            name : {"project"}] :
      /\ d.packageJson # "ok" => (d.runtime = <<>> /\ d.development = <<>>)
      /\ (d.pyproject \/ d.gradle) => (d.runtime = <<>> /\ d.development = <<>>)
      /\ ~d.requirements => d.lines = <<>>
      /\ d.packageJson = "ok" => d.lines = <<>> }

\* The root listing is varied in directories whose only manifests are
\* package.json and requirements.txt.
ListedDirectories ==
  { [d EXCEPT !.entries = list] :
      d \in { [EmptyDir EXCEPT !.packageJson = p, !.requirements = r,
                                !.readme = m, !.gitignore = g]
                : p \in {"absent", "ok"}, r \in BOOLEAN, m \in BOOLEAN, g \in BOOLEAN },
      list \in Listings \ { <<>> } }

\* Every combination of the manifests of the seven ecosystems (gemfile,
\* goMod, cargo: Gemfile, go.mod, Cargo.toml), in directories with nothing
\* else.
ManifestDirectories ==
  { [EmptyDir EXCEPT !.packageJson = IF m[1] THEN "ok" ELSE "absent",
                     !.requirements = m[2], !.pyproject = m[3],
                     !.pom = m[4], !.gradle = m[5], !.gemfile = m[6],
                     !.composer = IF m[7] THEN "ok" ELSE "absent",
                     !.goMod = m[8], !.cargo = m[9]] :
      m \in [1..9 -> BOOLEAN] }

\* Directories with the root names and the listings above and nothing else.
NamedDirectories ==
  { [EmptyDir EXCEPT !.name = n, !.entries = list] :
      n \in RootNames, list \in PruningListings }

Directories ==
  UnlistedDirectories \cup ListedDirectories \cup ManifestDirectories
    \cup NamedDirectories

\* Mutant of analyzeProjectInfo: a requirements.txt is looked for first.
analyzeProjectInfoPythonFirst(d) ==
  IF d.requirements THEN [type |-> "Python", language |-> "Python"]
  ELSE IF d.packageJson # "absent"
    THEN [type |-> "Node.js/JavaScript", language |-> "JavaScript/TypeScript"]
  ELSE IF d.pom THEN [type |-> "Java/Maven", language |-> "Java"]
  ELSE IF d.composer # "absent" THEN [type |-> "PHP", language |-> "PHP"]
  ELSE [type |-> "Unknown", language |-> "Unknown"]

\* type and language of this.projectInfo (names and versions are left out).
analyzeProjectInfo(d) ==
  IF d.packageJson # "absent"
    THEN [type |-> "Node.js/JavaScript", language |-> "JavaScript/TypeScript"]
  ELSE IF d.requirements THEN [type |-> "Python", language |-> "Python"]
  ELSE IF d.pom THEN [type |-> "Java/Maven", language |-> "Java"]
  ELSE IF d.composer # "absent" THEN [type |-> "PHP", language |-> "PHP"]
  ELSE [type |-> "Unknown", language |-> "Unknown"]

RECURSIVE RequirementNames(_)
RequirementNames(lines) ==
  IF lines = <<>> THEN <<>>
  ELSE (IF Head(lines).comment THEN <<>> ELSE <<Head(lines).pkg>>)
       \o RequirementNames(Tail(lines))

analyzeDependencies(d) ==
  IF d.packageJson # "absent"
    THEN [runtime |-> d.runtime, development |-> d.development]
  ELSE IF d.requirements
    THEN [runtime |-> RequirementNames(d.lines), development |-> <<>>]
  ELSE NoDependencies

\* JSON.parse throws on the manifest analyzeProjectInfo reads.
ManifestUnparseable(d) ==
  \/ d.packageJson = "unparseable"
  \/ /\ d.packageJson = "absent" /\ ~d.requirements /\ ~d.pom
     /\ d.composer = "unparseable"

\* Mutant of detectPatterns: only runtime dependencies are looked at.
detectPatternsRuntimeOnly(deps, d) ==
  LET all == deps.runtime
      lower(names) == \E i \in 1..Len(all) : toLowerCase(all[i]) \in names
      part(parts) ==
        \E i \in 1..Len(all) : \E q \in parts : includes(all[i], q)
  IN [frontend |->
        LabelIf(lower({"react", "next", "vue", "angular"}), "Component-based UI")
        \o LabelIf(lower({"redux", "zustand", "mobx", "vuex"}), "State Management"),
      backend |->
        LabelIf(lower({"express", "koa", "fastify", "hapi"}), "REST API")
        \o LabelIf(part({"graphql"}), "GraphQL API")
        \o LabelIf(lower({"django", "flask", "fastapi"}), "Python Web Framework"),
      database |->
        LabelIf(lower({"mongoose", "mongodb", "pg", "mysql", "sqlite3"}),
                "Database Integration")
        \o LabelIf(part({"prisma", "typeorm", "sequelize"}), "ORM"),
      testing |->
        LabelIf(lower({"jest", "mocha", "vitest", "pytest", "junit"}), "Unit Testing")
        \o LabelIf(part({"testing-library", "cypress", "playwright"}),
                   "E2E/Integration Testing"),
      deployment |->
        LabelIf(d.dockerfile, "Docker Containerization")
        \o LabelIf(d.workflows, "GitHub Actions CI/CD")]

detectPatterns(deps, d) ==
  LET all == deps.runtime \o deps.development
      lower(names) == \E i \in 1..Len(all) : toLowerCase(all[i]) \in names
      part(parts) ==
        \E i \in 1..Len(all) : \E q \in parts : includes(all[i], q)
  IN [frontend |->
        LabelIf(lower({"react", "next", "vue", "angular"}), "Component-based UI")
        \o LabelIf(lower({"redux", "zustand", "mobx", "vuex"}), "State Management"),
      backend |->
        LabelIf(lower({"express", "koa", "fastify", "hapi"}), "REST API")
        \o LabelIf(part({"graphql"}), "GraphQL API")
        \o LabelIf(lower({"django", "flask", "fastapi"}), "Python Web Framework"),
      database |->
        LabelIf(lower({"mongoose", "mongodb", "pg", "mysql", "sqlite3"}),
                "Database Integration")
        \o LabelIf(part({"prisma", "typeorm", "sequelize"}), "ORM"),
      testing |->
        LabelIf(lower({"jest", "mocha", "vitest", "pytest", "junit"}), "Unit Testing")
        \o LabelIf(part({"testing-library", "cypress", "playwright"}),
                   "E2E/Integration Testing"),
      deployment |->
        LabelIf(d.dockerfile, "Docker Containerization")
        \o LabelIf(d.workflows, "GitHub Actions CI/CD")]

\* What buildDirectoryTree returns for an excluded directory.
null == [name |-> "", type |-> "null", children |-> <<>>]

\* buildDirectoryTree: the entries that are not excluded, in the order
\* readdirSync returned them.  No listing goes deeper than two levels, so
\* maxLevel (3) is never passed.
RECURSIVE buildChildren(_)
buildChildren(list) ==
  IF list = <<>> THEN <<>>
  ELSE (IF shouldExclude(Head(list).name) THEN <<>>
        ELSE << [Head(list) EXCEPT !.children = buildChildren(@)] >>)
       \o buildChildren(Tail(list))

buildDirectoryTree(d) ==
  IF shouldExclude(d.name) THEN null
  ELSE Dir(d.name, buildChildren(d.entries))

(***************************************************************************)
(* Blueprint Generator: the document.                                      *)
(***************************************************************************)
\* The names used, in the order a.localeCompare(b) puts them.
Collation ==
  << ".env.example", ".github", "app.js", "app.log", "changelog.md",
     "debug.log", "docs", "index.js", "lib", "logs", "main.js",
     "node_modules", "project", "rebuild", "src" >>

Rank(name) == CHOOSE i \in 1..Len(Collation) : Collation[i] = name

localeCompare(a, b) == Rank(a) - Rank(b)

\* The comparator renderTree sorts with.
compareNodes(a, b) ==
  IF a.type = "directory" /\ b.type = "file" THEN -1
  ELSE IF a.type = "file" /\ b.type = "directory" THEN 1
  ELSE localeCompare(a.name, b.name)

\* children.sort(compareNodes); the sort is stable.
RECURSIVE sortNodes(_)
sortNodes(list) ==
  IF list = <<>> THEN <<>>
  ELSE LET rest == sortNodes(Tail(list))
           before == SelectSeq(rest, LAMBDA n : compareNodes(n, Head(list)) < 0)
           after == SelectSeq(rest, LAMBDA n : compareNodes(n, Head(list)) >= 0)
       IN before \o << Head(list) >> \o after

TreeLine(level, node) == [level |-> level, name |-> node.name, type |-> node.type]

\* The lines under one child of the root: the child, then, for a
\* directory, its children as they are stored.
RECURSIVE ChildLines(_)
ChildLines(children) ==
  IF children = <<>> THEN <<>>
  ELSE << TreeLine(1, Head(children)) >>
       \o [i \in 1..Len(Head(children).children) |->
             TreeLine(2, Head(children).children[i])]
       \o ChildLines(Tail(children))

\* The lines of the File Structure section; the branch glyphs are left out.
renderTree(node) ==
  IF node = null THEN <<>>
  ELSE << TreeLine(0, node) >> \o ChildLines(sortNodes(node.children))

createFileStructure(node) == renderTree(node)

RuntimeShown == 15
DevelopmentShown == 10

slice(list, n) == SubSeq(list, 1, IF Len(list) < n THEN Len(list) ELSE n)

\* Mutant of DependencyLines: the list is cut without the closing line.
DependencyLinesNoMore(list, shown) == slice(list, shown)

\* The bullet lines under one heading of the Dependencies section.
DependencyLines(list, shown) ==
  slice(list, shown)
    \o (IF Len(list) > shown
          THEN << "... and " \o ToString(Len(list) - shown) \o " more" >>
          ELSE <<>>)

createDependencies(deps) ==
  [runtime |-> DependencyLines(deps.runtime, RuntimeShown),
   development |-> DependencyLines(deps.development, DevelopmentShown)]

\* The section lists every category with its labels; a category without
\* labels gets no heading.
createPatterns(found) == found

createRecommendations(found, d) ==
  LET recommendations ==
        LabelIf(found.testing = <<>>, "Add Testing Framework")
        \o LabelIf(~d.readme, "Add README")
        \o LabelIf(~d.gitignore, "Add .gitignore")
        \o LabelIf(found.deployment = <<>>, "Setup CI/CD")
  IN IF recommendations = <<>> THEN << "Project structure looks good!" >>
     ELSE recommendations

createBlueprint(info, deps, found, d) ==
  [overview |-> info,
   dependencies |-> createDependencies(deps),
   patterns |-> createPatterns(found),
   recommendations |-> createRecommendations(found, d),
   fileStructure |-> createFileStructure(buildDirectoryTree(d))]

(***************************************************************************)
(* Blueprint Generator: one run.                                           *)
(***************************************************************************)
\* Directories that hold manifests and nothing else; the output file of
\* an earlier run is varied in these.
OnlyManifests(d) ==
  /\ d.runtime = <<>> /\ d.development = <<>> /\ d.lines = <<>>
  /\ d.entries = <<>>
  /\ ~d.readme /\ ~d.gitignore /\ ~d.dockerfile /\ ~d.workflows
  /\ ~d.gemfile /\ ~d.goMod /\ ~d.cargo

BPInit ==
  /\ bpDir \in Directories
  /\ bpPc = "idle"
  /\ projectInfo = NoProjectInfo
  /\ dependencies = NoDependencies
  /\ detected = NoPatterns
  /\ blueprint \in {"none"} \cup (IF OnlyManifests(bpDir) THEN {"earlier"} ELSE {})
  /\ bpExit = -1

\* Mutant of generate: the output file is opened before the analysis, so
\* a failing run leaves it empty.
generateWritesFirst ==
  /\ bpPc = "idle"
  /\ IF ManifestUnparseable(bpDir)
       THEN /\ bpPc' = "failed"
            /\ bpExit' = 1
            /\ blueprint' = ""
            /\ UNCHANGED <<projectInfo, dependencies, detected>>
       ELSE /\ bpPc' = "done"
            /\ bpExit' = 0
            /\ projectInfo' = analyzeProjectInfo(bpDir)
            /\ dependencies' = analyzeDependencies(bpDir)
            /\ detected' = detectPatterns(dependencies', bpDir)
            /\ blueprint' = createBlueprint(projectInfo', dependencies',
                                            detected', bpDir)
  /\ UNCHANGED <<bpDir, protoVars, vcLog, qaVars, toolsButBP>>

\* generate() as run from the command line: the analysis, then the
\* document written to the output file.  A manifest that does not parse
\* rejects the promise before anything is written, and the catch of the
\* command-line interface exits with status 1.
generate ==
  /\ bpPc = "idle"
  /\ IF ManifestUnparseable(bpDir)
       THEN /\ bpPc' = "failed"
            /\ bpExit' = 1
            /\ UNCHANGED <<projectInfo, dependencies, detected, blueprint>>
       ELSE /\ bpPc' = "done"
            /\ bpExit' = 0
            /\ projectInfo' = analyzeProjectInfo(bpDir)
            /\ dependencies' = analyzeDependencies(bpDir)
            /\ detected' = detectPatterns(dependencies', bpDir)
            /\ blueprint' = createBlueprint(projectInfo', dependencies',
                                            detected', bpDir)
  /\ UNCHANGED <<bpDir, protoVars, vcLog, qaVars, toolsButBP>>

InitBlueprint ==
  /\ ProtoIdle /\ vcLog = <<>> /\ QAIdle
  /\ ERIdle /\ WizIdle /\ BPInit /\ APIIdle /\ ShIdle /\ SWIdle

SpecBlueprint == InitBlueprint /\ [][generate]_vars

(***************************************************************************)
(* Retrieval service startup script (.roo/local-rag-llamaindex/start.sh).  *)
(***************************************************************************)
max_retries == 30
RetryWait == 2

ShInit ==
  /\ shPc = "checkDocker"
  /\ service = "stopped"
  /\ retry_count = 0
  /\ polls = 0
  /\ slept = 0
  /\ printed = ""
  /\ exitStatus = -1

ShFrame == UNCHANGED <<protoVars, vcLog, qaVars, toolsButSh>>

Exit(status, line) ==
  /\ shPc' = "exited"
  /\ exitStatus' = status
  /\ printed' = line

\* docker info, command -v docker-compose, docker-compose up -d (under
\* set -e) and sleep 10.
startServices ==
  /\ shPc = "checkDocker"
  /\ \E dockerRuns, composeInstalled, upWorks \in BOOLEAN :
       IF ~dockerRuns
         THEN Exit(1, "Please start Docker and try again") /\ UNCHANGED service
       ELSE IF ~composeInstalled
         THEN Exit(1, "Please install docker-compose and try again")
              /\ UNCHANGED service
       ELSE IF ~upWorks
         THEN Exit(1, "-> Starting services") /\ UNCHANGED service
       ELSE /\ shPc' = "checkHealth"
            /\ service' \in {"starting", "healthy", "broken"}
            /\ printed' = "-> Checking API health..."
            /\ UNCHANGED exitStatus
  /\ UNCHANGED <<retry_count, polls, slept>>
  /\ ShFrame

\* The query service, outside the script: it may come up while the script
\* waits, or stop answering.
serviceChanges ==
  /\ shPc = "checkHealth"
  /\ \/ service = "starting" /\ service' \in {"healthy", "broken"}
     \/ service = "healthy" /\ service' = "broken"
  /\ UNCHANGED <<shPc, retry_count, polls, slept, printed, exitStatus>>
  /\ ShFrame

\* Mutant of checkHealth: the loop test is -le instead of -lt.
checkHealthOneMore ==
  /\ shPc = "checkHealth"
  /\ retry_count <= max_retries
  /\ polls' = polls + 1
  /\ IF service = "healthy"
       THEN /\ shPc' = "report"
            /\ printed' = "API is ready!"
            /\ UNCHANGED <<retry_count, slept>>
       ELSE /\ retry_count' = retry_count + 1
            /\ printed' = "Waiting..."
            /\ slept' = slept + RetryWait
            /\ UNCHANGED shPc
  /\ UNCHANGED <<service, exitStatus>>
  /\ ShFrame

\* One turn of the while loop: the request to /health, then either break or
\* count, report and sleep 2.
checkHealth ==
  /\ shPc = "checkHealth"
  /\ retry_count < max_retries
  /\ polls' = polls + 1
  /\ IF service = "healthy"
       THEN /\ shPc' = "report"
            /\ printed' = "API is ready!"
            /\ UNCHANGED <<retry_count, slept>>
       ELSE /\ retry_count' = retry_count + 1
            /\ printed' = "Waiting..."
            /\ slept' = slept + RetryWait
            /\ UNCHANGED shPc
  /\ UNCHANGED <<service, exitStatus>>
  /\ ShFrame

\* The loop test fails: the loop is left without another request.
leaveLoop ==
  /\ shPc = "checkHealth"
  /\ ~(retry_count < max_retries)
  /\ shPc' = "report"
  /\ UNCHANGED <<service, retry_count, polls, slept, printed, exitStatus>>
  /\ ShFrame

\* The test after the loop and the closing messages.
report ==
  /\ shPc = "report"
  /\ IF retry_count = max_retries
       THEN Exit(1, "Check logs with: docker-compose logs")
       ELSE Exit(0, "RAG System is ready!")
  /\ UNCHANGED <<service, retry_count, polls, slept>>
  /\ ShFrame

ScriptStep == startServices \/ checkHealth \/ leaveLoop \/ report

ShNext == ScriptStep \/ serviceChanges

InitStartup ==
  /\ ProtoIdle /\ vcLog = <<>> /\ QAIdle
  /\ ERIdle /\ WizIdle /\ BPIdle /\ APIIdle /\ ShInit /\ SWIdle

\* The shell runs the script's commands one after the other and each of
\* them returns.
SpecStartup == InitStartup /\ [][ShNext]_vars /\ WF_vars(ScriptStep)

(***************************************************************************)
(* Setup Wizard (tools/setup-wizard.js): one session.                      *)
(***************************************************************************)
\* What a session can meet.  prerequisites: every tool found, or one
\* missing and the operator continues or stops; mkdir: plans/ can be
\* created; packageJson: read by the test framework step of a Node.js
\* project; npm, git, blueprint: the command is not run (declined or not
\* needed), succeeds or fails; scan: the final scan can be run; plans:
\* plans/ exists at the start; gitignore, readme: the file exists at the
\* start, or the offer to create it is declined or accepted.
PlainEnvironments ==
  { e \in [projectType : {"Node.js", "Python", "Other"},
           prerequisites : {"found", "continue", "stop"},
           mkdir : BOOLEAN,
           packageJson : {"absent", "ok", "unparseable"},
           npm : {"not run", "ok", "fails"},
           git : {"present", "declined", "ok", "fails"},
           blueprint : {"declined", "ok", "fails"},
           scan : BOOLEAN,
           plans : {FALSE}, gitignore : {"present"}, readme : {"present"}] :
      /\ e.projectType # "Node.js" => e.packageJson = "absent"
      /\ e.packageJson # "ok" => e.npm = "not run" }

\* The state of the directory at the start and the answers to the offers
\* are varied in sessions where nothing else goes wrong.
OfferEnvironments ==
  { [NoEnv EXCEPT !.projectType = t, !.git = g, !.gitignore = i,
                  !.readme = r, !.plans = p, !.scan = s] :
      t \in {"Node.js", "Python", "Other"},
      g \in {"present", "declined", "ok", "fails"},
      i \in {"present", "declined", "accepted"},
      r \in {"present", "declined", "accepted"},
      p \in BOOLEAN, s \in BOOLEAN }

Environments == PlainEnvironments \cup OfferEnvironments

\* The awaited calls of run(), in the order run() makes them.
StepOrder ==
  << "detectProjectType", "checkPrerequisites", "configureProject",
     "setupAgents", "setupDirectories", "setupTestFramework", "setupGit",
     "generateDocs", "runFinalChecks", "showCompletionMessage" >>

\* The message of the error a step lets escape ("" if none escapes).
Thrown(step, e) ==
  CASE step = "checkPrerequisites" /\ e.prerequisites = "stop"
         -> "Prerequisites not met"
    [] step = "setupDirectories" /\ ~e.mkdir /\ ~e.plans
         -> "EACCES: permission denied, mkdir"
    [] step = "setupTestFramework" /\ e.packageJson = "unparseable"
         -> "Unexpected token in JSON"
    [] step = "setupGit" /\ e.git = "fails"
         -> "Command failed: git init"
    [] OTHER -> ""

\* The result lines a step prints when it returns.
Printed(step, e) ==
  CASE step = "setupDirectories" /\ ~e.plans -> << "Created plans/" >>
    [] step = "setupDirectories" /\ e.plans -> << "plans/ already exists" >>
    [] step = "setupTestFramework" /\ e.npm = "ok"
         -> << "Jest installed and configured" >>
    [] step = "setupTestFramework" /\ e.npm = "fails"
         -> << "Failed to install Jest. You can install it manually later." >>
    [] step = "setupGit"
         -> LabelIf(e.git = "ok", "Git initialized")
            \o LabelIf(e.gitignore = "accepted", ".gitignore created")
    [] step = "generateDocs"
         -> LabelIf(e.readme = "accepted", "README.md created")
            \o LabelIf(e.blueprint = "ok", "Project blueprint generated")
            \o LabelIf(e.blueprint = "fails", "Could not generate blueprint")
    [] step = "runFinalChecks" /\ ~e.scan
         -> << "Could not run error recovery check" >>
    [] step = "showCompletionMessage" -> << "Setup Complete!" >>
    [] OTHER -> <<>>

NameIf(cond, name) == IF cond THEN {name} ELSE {}

\* Mutant of Made: the documentation step writes the blueprint only.
MadeNoReadme(step, e) ==
  CASE step = "setupDirectories" -> NameIf(~e.plans, "plans")
    [] step = "setupTestFramework" -> NameIf(e.npm = "ok", "jest")
    [] step = "setupGit"
         -> NameIf(e.git = "ok", ".git")
            \cup NameIf(e.gitignore = "accepted", ".gitignore")
    [] step = "generateDocs" -> NameIf(e.blueprint = "ok", "PROJECT-BLUEPRINT.md")
    [] OTHER -> {}

\* What a step that returns has created in the project.
Made(step, e) ==
  CASE step = "setupDirectories" -> NameIf(~e.plans, "plans")
    [] step = "setupTestFramework" -> NameIf(e.npm = "ok", "jest")
    [] step = "setupGit"
         -> NameIf(e.git = "ok", ".git")
            \cup NameIf(e.gitignore = "accepted", ".gitignore")
    [] step = "generateDocs"
         -> NameIf(e.readme = "accepted", "README.md")
            \cup NameIf(e.blueprint = "ok", "PROJECT-BLUEPRINT.md")
    [] OTHER -> {}

\* The directory the final check scans: what was there at the start and
\* what the session has created.  The agent files and the git identity
\* are taken to be in place.
Project(e, made) ==
  [HealthyTree EXCEPT
     !.git = IF e.git = "present" \/ ".git" \in made THEN "dirty" ELSE "none",
     !.pkg = IF e.packageJson = "absent" THEN "absent"
             ELSE IF "jest" \in made THEN "testScript" ELSE "noTestScript",
     !.framework = "jest" \in made,
     !.nodeModules = "jest" \in made,
     !.manifest = IF e.projectType = "Python" THEN "requirements.txt"
                  ELSE "none",
     !.readme = (e.readme = "present" \/ "README.md" \in made),
     !.gitignore = (e.gitignore = "present" \/ ".gitignore" \in made),
     !.plans = (e.plans \/ "plans" \in made)]

\* runFinalChecks: new ErrorRecovery({ scan: true, rootDir }).run() lists
\* the issues of every category; here the ids of the issues stand for the
\* lines it prints.
FinalScan(step, e, made) ==
  IF step = "runFinalChecks" /\ e.scan
    THEN LET found == scanForIssues(Project(e, made), "all", <<>>).issues
         IN [i \in 1..Len(found) |-> found[i].id]
    ELSE <<>>

SWFrame == UNCHANGED <<protoVars, vcLog, qaVars, toolsButSW>>

\* Mutant of Step: an error of a step is reported and the next step runs.
StepContinuesAfterError(step, next) ==
  /\ swPc = step
  /\ swSteps' = Append(swSteps, step)
  /\ IF Thrown(step, swEnv) # ""
       THEN /\ swOutput' = swOutput
                 \o << "Setup failed: " \o Thrown(step, swEnv),
                       "You can run this wizard again to retry." >>
            /\ swPc' = next
            /\ UNCHANGED swMade
       ELSE /\ swOutput' = swOutput \o Printed(step, swEnv)
                                  \o FinalScan(step, swEnv, swMade)
            /\ swMade' = swMade \cup Made(step, swEnv)
            /\ swPc' = next
  /\ UNCHANGED swEnv
  /\ SWFrame

\* One call of run(): the step is entered; an error that escapes it is
\* caught by run(), reported, and the readline interface is closed;
\* otherwise the next call follows.
Step(step, next) ==
  /\ swPc = step
  /\ swSteps' = Append(swSteps, step)
  /\ IF Thrown(step, swEnv) # ""
       THEN /\ swOutput' = swOutput
                 \o << "Setup failed: " \o Thrown(step, swEnv),
                       "You can run this wizard again to retry." >>
            /\ swPc' = "closed"
            /\ UNCHANGED swMade
       ELSE /\ swOutput' = swOutput \o Printed(step, swEnv)
                                  \o FinalScan(step, swEnv, swMade)
            /\ swMade' = swMade \cup Made(step, swEnv)
            /\ swPc' = next
  /\ UNCHANGED swEnv
  /\ SWFrame

SWInit ==
  /\ swPc = "idle"
  /\ swEnv \in Environments
  /\ swSteps = <<>>
  /\ swOutput = <<>>
  /\ swMade = {}

\* node tools/setup-wizard.js: the title is printed and run() begins.
SWRun ==
  /\ swPc = "idle"
  /\ swPc' = "detectProjectType"
  /\ UNCHANGED <<swEnv, swSteps, swOutput, swMade>>
  /\ SWFrame

detectProjectType == Step("detectProjectType", "checkPrerequisites")

checkPrerequisites == Step("checkPrerequisites", "configureProject")

configureProject == Step("configureProject", "setupAgents")

setupAgents == Step("setupAgents", "setupDirectories")

setupDirectories == Step("setupDirectories", "setupTestFramework")

setupTestFramework == Step("setupTestFramework", "setupGit")

setupGit == Step("setupGit", "generateDocs")

generateDocs == Step("generateDocs", "runFinalChecks")

runFinalChecks == Step("runFinalChecks", "showCompletionMessage")

showCompletionMessage == Step("showCompletionMessage", "closed")

SWNext ==
  \/ SWRun
  \/ detectProjectType
  \/ checkPrerequisites
  \/ configureProject
  \/ setupAgents
  \/ setupDirectories
  \/ setupTestFramework
  \/ setupGit
  \/ generateDocs
  \/ runFinalChecks
  \/ showCompletionMessage

InitSetup ==
  /\ ProtoIdle /\ vcLog = <<>> /\ QAIdle
  /\ ERIdle /\ WizIdle /\ BPIdle /\ APIIdle /\ ShIdle /\ SWInit

\* run() is one sequence of awaited calls; with an operator who answers
\* the prompts every call that is reached is made.
SpecSetup == InitSetup /\ [][SWNext]_vars /\ WF_vars(SWNext)

\* detected[0] in detectProjectType of the Setup Wizard: the first detector
\* that fires on the directory, in the order of the detectors object; ""
\* when none fires and the operator is asked.
detectedType(d) ==
  IF d.packageJson # "absent" THEN "Node.js"
  ELSE IF d.requirements \/ d.pyproject THEN "Python"
  ELSE IF d.pom \/ d.gradle THEN "Java"
  ELSE IF d.gemfile THEN "Ruby"
  ELSE IF d.composer # "absent" THEN "PHP"
  ELSE IF d.goMod THEN "Go"
  ELSE IF d.cargo THEN "Rust"
  ELSE ""

(***************************************************************************)
(* Claims about the Blueprint Generator (checked under SpecBlueprint).     *)
(***************************************************************************)
\* C13: identity detection takes the first manifest present in the order
\* package.json, requirements.txt, pom.xml, composer.json; a directory with
\* both package.json and requirements.txt is reported as Node.js/JavaScript,
\* and a later manifest never overrides an earlier one.
C13_FirstManifestWins ==
  bpPc = "done" =>
    /\ blueprint.overview = projectInfo
    /\ projectInfo.type =
         (IF bpDir.packageJson # "absent" THEN "Node.js/JavaScript"
          ELSE IF bpDir.requirements THEN "Python"
          ELSE IF bpDir.pom THEN "Java/Maven"
          ELSE IF bpDir.composer # "absent" THEN "PHP"
          ELSE "Unknown")

C13_Witness ==
  /\ bpPc = "done"
  /\ bpDir.packageJson = "ok" /\ bpDir.requirements /\ bpDir.pom
  /\ bpDir.composer = "ok"
  /\ blueprint.overview.type = "Node.js/JavaScript"

\* C14: with dependencies exactly express and jest the Architectural
\* Patterns section has exactly "REST API" under Backend and exactly "Unit
\* Testing" under Testing; the "Add Testing Framework" recommendation is
\* printed if and only if no testing pattern was detected.
Listed(list) == { list[i] : i \in 1..Len(list) }

ExpressAndJest(d) ==
  /\ d.packageJson = "ok"
  /\ Listed(d.runtime \o d.development) = {"express", "jest"}

C14_ExpressJestPatterns ==
  bpPc = "done" =>
    /\ ExpressAndJest(bpDir) =>
         /\ blueprint.patterns.backend = << "REST API" >>
         /\ blueprint.patterns.testing = << "Unit Testing" >>
         /\ "Add Testing Framework" \notin Listed(blueprint.recommendations)
    /\ "Add Testing Framework" \in Listed(blueprint.recommendations)
         <=> blueprint.patterns.testing = <<>>

C14_Witness ==
  /\ bpPc = "done"
  /\ bpDir.runtime = << "express" >> /\ bpDir.development = << "jest" >>
  /\ blueprint.patterns.backend = << "REST API" >>
  /\ blueprint.patterns.testing = << "Unit Testing" >>
  /\ "Add README" \in Listed(blueprint.recommendations)

\* C15: of n runtime dependencies the Dependencies section lists exactly the
\* first min(n, 15) in manifest order, followed by "... and n-15 more" if
\* and only if n > 15; development dependencies are cut the same way at 10.
Cut(list, shown) ==
  LET n == Len(list)
      kept == IF n < shown THEN n ELSE shown
  IN [i \in 1..(IF n > shown THEN kept + 1 ELSE kept) |->
        IF i <= kept THEN list[i]
        ELSE "... and " \o ToString(n - shown) \o " more"]

C15_DependenciesTruncated ==
  (bpPc = "done" /\ bpDir.packageJson = "ok") =>
    /\ blueprint.dependencies.runtime = Cut(bpDir.runtime, 15)
    /\ blueprint.dependencies.development = Cut(bpDir.development, 10)

C15_Witness ==
  /\ bpPc = "done"
  /\ Len(bpDir.runtime) = 20
  /\ Len(blueprint.dependencies.runtime) = 16
  /\ blueprint.dependencies.runtime[15] = bpDir.runtime[15]
  /\ blueprint.dependencies.runtime[16] = "... and 5 more"
  /\ Len(bpDir.development) = 11
  /\ blueprint.dependencies.development[11] = "... and 1 more"

\* C27: identity detection recognizes a Python project from requirements.txt
\* or pyproject.toml and a Java project from pom.xml or build.gradle; type
\* and language are "Unknown" only when no JS, Python, Java or PHP manifest
\* is present.
PythonManifest(d) == d.requirements \/ d.pyproject

JavaManifest(d) == d.pom \/ d.gradle

C27_PythonAndJavaRecognized ==
  bpPc = "done" =>
    /\ (bpDir.packageJson = "absent" /\ PythonManifest(bpDir))
         => projectInfo.language = "Python"
    /\ (bpDir.packageJson = "absent" /\ ~PythonManifest(bpDir)
           /\ JavaManifest(bpDir))
         => projectInfo.language = "Java"
    /\ (projectInfo.type = "Unknown" \/ projectInfo.language = "Unknown")
         => /\ bpDir.packageJson = "absent" /\ bpDir.composer = "absent"
            /\ ~PythonManifest(bpDir) /\ ~JavaManifest(bpDir)

\* C28: pattern detection is case-insensitive for every rule of the five
\* tables: the labels found for a dependency list are the labels found for
\* the same list written in lower case.
LowerCased(list) == [i \in 1..Len(list) |-> toLowerCase(list[i])]

C28_PatternsIgnoreCase ==
  bpPc = "done" =>
    detected = detectPatterns([runtime |-> LowerCased(dependencies.runtime),
                               development |->
                                 LowerCased(dependencies.development)],
                              bpDir)

\* C29: at every rendered level of the File Structure tree the entries of
\* a directory appear with all directories before all files and in
\* alphabetical order within each group, whatever order the filesystem
\* returned them in.
InOrder(a, b) ==
  \/ a.type = "directory" /\ b.type = "file"
  \/ a.type = b.type /\ Rank(a.name) < Rank(b.name)

SameDirectory(lines, i, j) ==
  /\ lines[i].level = lines[j].level
  /\ \A k \in i..j : lines[k].level >= lines[i].level

C29_TreeSortedAtEveryLevel ==
  bpPc = "done" =>
    LET lines == blueprint.fileStructure IN
    \A i, j \in 1..Len(lines) :
      (i < j /\ SameDirectory(lines, i, j)) => InOrder(lines[i], lines[j])

\* What the code does keep: the entries directly under the root are sorted.
C29_RootLevelSorted ==
  bpPc = "done" =>
    LET lines == blueprint.fileStructure IN
    \A i, j \in 1..Len(lines) :
      (i < j /\ lines[i].level = 1 /\ lines[j].level = 1)
        => InOrder(lines[i], lines[j])

\* C35: for every combination of manifest files the Setup Wizard and the
\* Blueprint Generator classify the directory as the same ecosystem.
Ecosystem(type) ==
  CASE type \in {"Node.js", "Node.js/JavaScript"} -> "js"
    [] type = "Python" -> "python"
    [] type \in {"Java", "Java/Maven"} -> "java"
    [] type = "Ruby" -> "ruby"
    [] type = "PHP" -> "php"
    [] type = "Go" -> "go"
    [] type = "Rust" -> "rust"
    [] type \in {"", "Unknown"} -> "none"

C35_WizardAndGeneratorAgree ==
  bpPc = "done" =>
    Ecosystem(detectedType(bpDir)) = Ecosystem(projectInfo.type)

\* Where they do agree: directories whose first manifest in the wizard's
\* order is package.json, requirements.txt, pom.xml or composer.json, and
\* directories with no manifest of the seven ecosystems.
C35_AgreeOnSharedManifests ==
  (bpPc = "done"
     /\ (bpDir.packageJson # "absent" \/ bpDir.requirements
           \/ (~bpDir.pyproject /\ bpDir.pom)
           \/ detectedType(bpDir) \in {"PHP", ""})) =>
    Ecosystem(detectedType(bpDir)) = Ecosystem(projectInfo.type)

\* C36: a path is left out of the file-tree snapshot exactly when its
\* base name is, or holds as a part, an exclude pattern without *, or holds
\* a part matching a pattern with * (for *.log: any character followed by
\* "log"); the root directory is tested the same way, and when it is
\* excluded the document is still written, with an empty File Structure.
Part(name, i, j) == SubSeq(name, i, j)

Pruned(name) ==
  \/ \E i, j \in 1..Len(name) :
       Part(name, i, j) \in excludePatterns \ {"*.log"}
  \/ \E i \in 2..(Len(name) - 2) : Part(name, i, i + 2) = "log"

Shown(lines, level, name) ==
  \E k \in 1..Len(lines) : lines[k].level = level /\ lines[k].name = name

C38_WrittenOnlyAfterAnalysis ==
  /\ [](bpPc = "done" => (~ManifestUnparseable(bpDir) /\ bpExit = 0))
  /\ []((bpPc # "idle" /\ ManifestUnparseable(bpDir))
          => (bpPc = "failed" /\ bpExit = 1))
  /\ [][ManifestUnparseable(bpDir) => blueprint' = blueprint]_vars

C38_Witness ==
  /\ bpPc = "failed"
  /\ bpDir.packageJson = "unparseable"
  /\ blueprint = "earlier"
  /\ bpExit = 1

(***************************************************************************)
(* Claims about the Setup Wizard (checked under SpecSetup).                *)
(***************************************************************************)
\* C21: a session runs its steps in the fixed order; if a step raises an
\* error the session reports it and runs no later step and prints no
\* completion banner; if no step raises an error the session always reaches
\* the completion banner.
Raises(e) == \E k \in 1..Len(StepOrder) : Thrown(StepOrder[k], e) # ""

C21_OrderedAbortOrBanner ==
  /\ [](/\ Len(swSteps) <= Len(StepOrder)
        /\ swSteps = SubSeq(StepOrder, 1, Len(swSteps)))
  /\ [](\A k \in 1..Len(swSteps) :
          Thrown(swSteps[k], swEnv) # "" =>
            /\ k = Len(swSteps)
            /\ swPc = "closed"
            /\ ("Setup failed: " \o Thrown(swSteps[k], swEnv))
                 \in Listed(swOutput)
            /\ "Setup Complete!" \notin Listed(swOutput))
  /\ (swPc = "detectProjectType" /\ ~Raises(swEnv))
       ~> (swPc = "closed" /\ swSteps = StepOrder
           /\ swOutput[Len(swOutput)] = "Setup Complete!")

C21_Witness ==
  /\ swPc = "closed"
  /\ swEnv.prerequisites = "continue" /\ ~swEnv.mkdir
  /\ swSteps = SubSeq(StepOrder, 1, 5)
  /\ swOutput = << "Setup failed: EACCES: permission denied, mkdir",
                   "You can run this wizard again to retry." >>
  /\ swMade = {}

\* C30: a subprocess that exits non-zero (git init, package install) fails
\* its own step only: it is caught and reported and the session goes on to
\* its normal completion; a failing subprocess never ends the session.
OnlySubprocessesFail(e) ==
  /\ e.prerequisites # "stop" /\ e.mkdir /\ e.packageJson # "unparseable"

C30_SubprocessFailureRecoverable ==
  (swPc = "closed" /\ OnlySubprocessesFail(swEnv)) =>
    /\ swSteps = StepOrder
    /\ "Setup Complete!" \in Listed(swOutput)

\* C39: in a session that reaches the final check and in which every
\* offer for version control, .gitignore and README.md was accepted, the
\* final scan reports none of git_not_initialized, no_gitignore, no_readme
\* and no_plans_directory, whatever the project type and whatever the
\* directory held at the start.
OffersAccepted(e) ==
  e.git # "declined" /\ e.gitignore # "declined" /\ e.readme # "declined"

StructureIssues ==
  {"git_not_initialized", "no_gitignore", "no_readme", "no_plans_directory"}

C39_FinalScanFindsStructure ==
  ("runFinalChecks" \in Listed(swSteps) /\ OffersAccepted(swEnv)) =>
    Listed(swOutput) \cap StructureIssues = {}

C39_Witness ==
  /\ swPc = "closed"
  /\ swSteps = StepOrder
  /\ swEnv.scan /\ ~swEnv.plans
  /\ swEnv.git = "ok" /\ swEnv.gitignore = "accepted"
  /\ swEnv.readme = "accepted"
  /\ swEnv.projectType = "Python"
  /\ swMade = {"plans", ".git", ".gitignore", "README.md"}
  /\ "no_test_setup" \in Listed(swOutput)
  /\ Listed(swOutput) \cap StructureIssues = {}

(***************************************************************************)
(* Claims about the generated project (checked under SpecProjectInit).     *)
(***************************************************************************)
\* C16: when the operator answers no to the database question, the
\* generated document has no Database Schema section, whatever was
\* answered in the other steps.
C16_NoDatabaseNoSchema ==
  (projectDir.files.blueprint /\ config.dbType = "none") =>
    "Database Schema" \notin projectDir.files.sections

C16_Witness ==
  /\ projectDir.files.blueprint
  /\ config.dbType = "none"
  /\ config.authType # "none"
  /\ Len(config.apis) > 0
  /\ config.docker
  /\ projectDir.files.sections =
       { "Project Overview", "Technology Stack", "API Endpoints",
         "Authentication & Authorization" }

\* C17: when the selected deployment targets include Docker or Kubernetes,
\* both a Dockerfile and a docker-compose.yml are written for every project
\* language; when neither is selected, neither file is written.
C17_DockerFilesTogether ==
  projectDir.files.blueprint =>
    IF "docker" \in config.targets \/ "kubernetes" \in config.targets
      THEN projectDir.files.dockerfile # "none" /\ projectDir.files.compose
      ELSE projectDir.files.dockerfile = "none" /\ ~projectDir.files.compose

\* C18: in the endpoint loop a line of the shape "METHOD /path - Description"
\* (method in either letter case) adds exactly one endpoint with that
\* method, path and description; any other non-empty line adds nothing,
\* raises no error, and the loop goes on to the next prompt; only an empty
\* answer ends the loop.
Shaped(line) ==
  /\ \E m \in {"GET", "POST", "PUT", "PATCH", "DELETE"} :
       line.method = m \/ toUpperCase(line.method) = m
  /\ line.slash /\ line.dash /\ line.desc # ""

BeforeConfirmation ==
  { "gatherProjectInfo", "defineArchitecture", "defineAPIs",
    "defineDatabaseRequirements", "defineAuthentication",
    "defineDeploymentTargets", "defineEnvironment", "confirm" }

C19_NothingWrittenUnlessConfirmed ==
  /\ [](wizPc \in BeforeConfirmation \cup {"cancelled"} =>
          (projectDir.files = NoFiles /\ vcLog = <<>>))
  /\ [][(wizPc \in BeforeConfirmation /\ wizPc' # "createProjectStructure") =>
          (projectDir' = projectDir /\ vcLog' = vcLog)]_vars
  /\ [][(wizPc = "cancelled") => UNCHANGED vars]_vars

C19_Witness ==
  /\ wizPc = "cancelled"
  /\ config.docker /\ config.cicd = "github-actions"
  /\ Len(config.apis) > 0
  /\ ~projectDir.git
  /\ projectDir.files = NoFiles
  /\ vcLog = <<>>

\* C31 as stated: every docker-compose.yml with a database service names
\* the image of that service postgres, whichever database type was chosen.
C31_ImageAlwaysPostgres ==
  (wizPc \in {"initializeGit", "complete"}
     /\ projectDir.files.composeDb # "none") =>
    projectDir.files.composeDb \in {"postgres", "postgres:latest"}

\* C31 amended: the image of the database service is the chosen database
\* type followed by ":latest"; the service exists exactly when the compose
\* file is written and a database was chosen.
C31_ImageIsDatabaseType ==
  wizPc \in {"initializeGit", "complete"} =>
    /\ projectDir.files.composeDb # "none"
         <=> (projectDir.files.compose /\ config.dbType # "none")
    /\ projectDir.files.composeDb # "none"
         => projectDir.files.composeDb = config.dbType \o ":latest"

C31_Witness ==
  /\ wizPc = "complete"
  /\ config.dbType = "mongodb"
  /\ projectDir.files.compose
  /\ projectDir.files.composeDb = "mongodb:latest"

\* C37 as stated: after the information-gathering steps every enumerated
\* field of the configuration holds a member of its option list, and the
\* deployment targets are among the eight listed ones.
Options(list) == { list[i] : i \in 1..Len(list) }

Gathered == wizPc \notin {"idle", "gatherProjectInfo", "defineArchitecture",
                          "defineAPIs", "defineDatabaseRequirements",
                          "defineAuthentication", "defineDeploymentTargets",
                          "defineEnvironment"}

C37_EveryFieldFromItsList ==
  Gathered =>
    /\ config.type \in Options(types)
    /\ config.language \in Options(languages)
    /\ config.pattern \in Options(patterns)
    /\ config.dbType \in Options(databases)
    /\ config.authType \in Options(authTypes)
    /\ config.targets \subseteq Options(deployTargets)

\* C37 amended: the fields whose menu is always shown (type, language,
\* pattern) hold a member of their list; a field whose menu is shown only
\* after an earlier answer holds a member of its list when the menu was
\* shown, and otherwise "none" (database and authentication type) or
\* nothing (frontend framework, cache, message queue, CI platform); the
\* deployment targets are among the eight listed ones.
C37_AskedFieldsFromTheirLists ==
  Gathered =>
    /\ config.type \in Options(types)
    /\ config.language \in Options(languages)
    /\ config.pattern \in Options(patterns)
    /\ IF config.type = "web-app" THEN config.frontend \in Options(frameworks)
       ELSE config.frontend = ""
    /\ config.cache \in Options(caches) \cup {""}
    /\ config.messageQueue \in Options(queues) \cup {""}
    /\ config.dbType \in Options(databases) \cup {"none"}
    /\ config.authType \in Options(authTypes) \cup {"none"}
    /\ config.cicd \in Options(ciPlatforms) \cup {""}
    /\ config.targets \subseteq Options(deployTargets)

C37_Witness ==
  /\ wizPc = "confirm"
  /\ config.type = "other"
  /\ config.pattern = "layered"
  /\ config.cache = "redis"
  /\ config.dbType = "none"
  /\ config.authType = "jwt"
  /\ config.targets = {"docker", "heroku"}

(***************************************************************************)
(* Claims about the startup script (checked under SpecStartup).            *)
(***************************************************************************)
\* C20: if the health endpoint never returns success, the script makes
\* exactly 30 requests, 2 seconds apart, then prints a diagnostic message
\* and exits with a non-zero status; it never makes a 31st request and
\* never hangs.
NeverSucceeded == service # "stopped" /\ retry_count = polls

C2_OnlyOperatorCommits ==
  \A i \in 1..Len(vcLog) : vcLog[i].op = "commit" => vcLog[i].by = "operator"

(***************************************************************************)
(* Claims about the Error Recovery System (checked under SpecRecovery).    *)
(***************************************************************************)
HasIssue(list, id) == \E i \in 1..Len(list) : list[i].id = id

AgentFileAbsent == \E i \in DOMAIN tree.agents : tree.agents[i] = "absent"

\* C9 (as claimed): every Issue Record missing_agent_files has severity
\* high and fixable = false, so that it is never applied as a fix, and
\* every Issue Record no_readme has severity low and fixable = true.
C9_MissingAgentsNeverFixable ==
  /\ \A i \in 1..Len(issues) :
        /\ issues[i].id = "missing_agent_files" =>
             (issues[i].severity = "high" /\ ~issues[i].fixable)
        /\ issues[i].id = "no_readme" =>
             (issues[i].severity = "low" /\ issues[i].fixable)
  /\ \A j \in 1..Len(fixes) : fixes[j] # "missing_agent_files"

\* C9 (amended): every Issue Record missing_agent_files has severity high
\* and fixable = true: it is queued with the other fixable issues, and its
\* remediation, once applied, only prints instructions and leaves the
\* agent files absent.  Every Issue Record no_readme has severity low and
\* fixable = true.
C9_MissingAgentsQueuedButManual ==
  /\ \A i \in 1..Len(issues) :
        /\ issues[i].id = "missing_agent_files" =>
             (issues[i].severity = "high" /\ issues[i].fixable)
        /\ issues[i].id = "no_readme" =>
             (issues[i].severity = "low" /\ issues[i].fixable)
  /\ (\E j \in 1..Len(fixes) : fixes[j] = "missing_agent_files")
       => AgentFileAbsent

C9_Witness ==
  /\ erPc = "done"
  /\ HasIssue(issues, "missing_agent_files")
  /\ HasIssue(issues, "no_readme")
  /\ fixes = <<"missing_agent_files", "no_readme">>
  /\ AgentFileAbsent
  /\ tree.readme

C11_ScanOnlyTouchesNothing ==
  /\ []((erPc # "idle" /\ erOpts.scan) =>
         /\ erPc \in {"done", "crashed"}
         /\ prompts = 0
         /\ fixes = <<>>
         /\ tree = scanned)
  /\ [][(erPc' # "idle" /\ erOpts'.scan) =>
           (tree' = tree /\ vcLog' = vcLog)]_vars

C11_Witness ==
  /\ erPc = "done"
  /\ erOpts.scan
  /\ erOpts.auto
  /\ Len(Fixable(issues)) >= 2
  /\ HasIssue(issues, "no_gitignore")
  /\ ~tree.gitignore
  /\ prompts = 0

LacksStructure(t) == ~t.gitignore /\ ~t.readme /\ ~t.plans

\* C12: when a run with the auto-fix flag scanned a directory with no
\* .gitignore, no README.md and no plans directory, the scan of the next
\* run (same category) reports none of no_gitignore, no_readme and
\* no_plans_directory, whatever else was found and whether or not other
\* remediations failed; when the run covered every category and reached
\* its end, the three are present in the directory.
C12_AutoFixRepairsStructure ==
  (prev.ran /\ prev.auto /\ ~prev.scan /\ LacksStructure(prev.tree)) =>
    /\ ~HasIssue(issues, "no_gitignore")
    /\ ~HasIssue(issues, "no_readme")
    /\ ~HasIssue(issues, "no_plans_directory")
    /\ (erCategory = "all" /\ prev.outcome = "done") =>
         (tree.gitignore /\ tree.readme /\ tree.plans)

C12_Witness ==
  /\ prev.ran
  /\ prev.auto
  /\ ~prev.scan
  /\ LacksStructure(prev.tree)
  /\ prev.outcome = "done"
  /\ erCategory = "all"
  /\ erPc = "done"
  /\ HasIssue(prev.issues, "no_plans_directory")
  /\ HasIssue(prev.issues, "dependencies_not_installed")
  /\ HasIssue(issues, "dependencies_not_installed")
  /\ tree.gitignore /\ tree.readme /\ tree.plans

\* C22: in the fix loop a remediation that throws is reported for that
\* issue only; every remaining fixable issue is still offered or applied,
\* and a failure never ends the loop early.
C22_FailedFixDoesNotEndLoop ==
  [][(erPc = "fixing") =>
       /\ issues' = issues
       /\ IF fixIdx < Len(Fixable(issues))
            THEN erPc' = "fixing" /\ fixIdx' = fixIdx + 1
            ELSE erPc' = "done"]_vars

C22_Witness ==
  /\ erPc = "done"
  /\ erOpts.auto /\ ~erOpts.scan
  /\ HasIssue(issues, "dependencies_not_installed")
  /\ ~tree.nodeModules
  /\ fixes = << "no_readme", "no_gitignore", "no_plans_directory" >>

\* C23: with the auto-fix flag set the tool applies every fixable
\* remediation without asking the operator anything: no prompt of any kind
\* is issued between the scan and the end of the run.
C23_AutoFixNeverPrompts ==
  (erPc # "idle" /\ erOpts.auto) => prompts = 0

\* C25: every category scan is independent and best-effort: a finding or an
\* internal failure in one category never prevents the remaining
\* categories from being scanned and reported in the same run.
C25_ScanBestEffort ==
  (erPc # "idle" /\ tree = scanned /\ fixes = <<>>) =>
    \A i \in 1..Len(Checks(erCategory)) :
      LET check == Checks(erCategory)[i] IN
      ~CheckThrows(check, scanned) =>
        \A j \in 1..Len(CheckIssues(check, scanned)) :
          HasIssue(issues, CheckIssues(check, scanned)[j].id)

\* The state right after the scan of a run.
JustScanned ==
  /\ erPc \in {"done", "fixing"}
  /\ tree = scanned /\ fixes = <<>> /\ prompts = 0 /\ fixIdx <= 1

\* C26: no_test_setup is reported exactly when no manifest of any
\* recognized kind exists in the project root; a project that has any
\* recognized manifest (for example only requirements.txt, pyproject.toml
\* or build.gradle) is never reported as no_test_setup.
NoManifest(t) == t.pkg = "absent" /\ ~t.pom /\ t.manifest = "none"

C26_NoTestSetupIffNoManifest ==
  (JustScanned /\ erCategory \in {"all", "tests"}) =>
    (HasIssue(issues, "no_test_setup") <=> NoManifest(scanned))

\* C24: the category checks commute: evaluating them in any order on the
\* same tree yields the same set of Issue Records.
Orders ==
  LET checks == Checks("all") IN
  { [i \in 1..Len(checks) |-> checks[p[i]]] :
      p \in { q \in [1..Len(checks) -> 1..Len(checks)] :
                \A i, j \in 1..Len(checks) : q[i] = q[j] => i = j } }

C24_ChecksCommute ==
  (erPc \in {"done", "crashed"} /\ erCategory = "all") =>
    \A order \in Orders :
      LET other == RunChecks(order, scanned, <<>>) IN
      /\ other.threw <=> erPc = "crashed"
      /\ ~other.threw => Listed(other.issues) = Listed(issues)

C24_Witness ==
  /\ erPc = "done" /\ erOpts.scan /\ erCategory = "all"
  /\ tree = scanned
  /\ issues = << Issue("git_not_initialized", "high", TRUE),
                 Issue("no_readme", "low", TRUE),
                 Issue("no_plans_directory", "info", TRUE) >>

(***************************************************************************)
(* Claims about the Conductor workflow (checked under Spec).               *)
(***************************************************************************)
Approved(k) == review[k] = [attempt |-> attempts[k], verdict |-> "APPROVED"]
Passed(k) ==
  /\ qa[k].attempt = attempts[k]
  /\ qa[k].verdict \in {"PASS", "ADVISORY"}

C3_QAAfterApprovedReview ==
  /\ [](pstate = "QA_CHECKING" => Approved(phase))
  /\ [][qa' # qa =>
         /\ pstate = "QA_CHECKING"
         /\ Approved(phase)
         /\ qa'[phase].attempt = attempts[phase]
         /\ \A k \in (1..MaxPhases) \ {phase} : qa'[k] = qa[k]]_vars
  /\ [][(pstate \in {"REVIEWING", "QA_CHECKING"}) /\ pstate' = "IMPLEMENTING"
         => (phase' = phase /\ attempts'[phase] = (attempts[phase] + 1))]_vars

C3_Witness ==
  /\ pstate = "AWAITING_COMMIT"
  /\ qa[phase].attempt = 2
  /\ review[phase].attempt = 2

C5_ReviewSuccessors ==
  /\ [][pstate = "REVIEWING" =>
         /\ phase' = phase
         /\ review'[phase].attempt = attempts[phase]
         /\ \/ review'[phase].verdict = "APPROVED" /\ pstate' = "QA_CHECKING"
            \/ review'[phase].verdict = "NEEDS_REVISION"
                 /\ pstate' = "IMPLEMENTING"
            \/ review'[phase].verdict = "FAILED"
                 /\ pstate' = "BLOCKED_ON_HUMAN"]_vars
  /\ [][pstate = "BLOCKED_ON_HUMAN" => lastActor' = "human"]_vars

C5_Witness ==
  /\ pstate = "IMPLEMENTING"
  /\ review[phase].verdict = "FAILED"
  /\ attempts[phase] = review[phase].attempt + 1
  /\ lastActor = "human"

\* C6: in every mode, a step that leaves AWAITING_PLAN_APPROVAL or
\* AWAITING_COMMIT is the human's approval or confirmation (it is taken by
\* the human and counts as one checkpoint passed); nothing else leaves a
\* checkpoint.
C6_CheckpointsNeedHuman ==
  [][(pstate \in Checkpoints) /\ pstate' # pstate =>
       /\ lastActor' = "human"
       /\ checkpoints' = checkpoints + 1
       /\ mode' = mode]_vars

C6_Witness ==
  /\ mode = "rapid"
  /\ pstate = "COMPLETE"
  /\ checkpoints = nPhases + 1
  /\ lastActor = "human"

\* C32 as stated: every mode only tightens the default: the minimum
\* coverage is never below the default 70%, no default check is switched
\* off, and no mode adds a role or a phase type.
C32_ModesOnlyTighten ==
  /\ ModeCoverage(mode) >= MinCoverage
  /\ ChecksSkipped(mode) = {}
  /\ ModeOwner(mode) \in Roles
  /\ lastActor \in Roles \cup {"human", "none"}
  /\ pstate \in PhaseTypes

\* C32 amended: strict and strict-tdd raise the minimum coverage to 90%,
\* rapid lowers it to 60% and skips security scanning and the full test
\* run, the other modes leave the thresholds alone; no mode adds a role or
\* a phase type.
C32_RapidLoosensOthersTighten ==
  /\ mode # "rapid" =>
       (ModeCoverage(mode) >= MinCoverage /\ ChecksSkipped(mode) = {})
  /\ mode \in {"strict", "strict-tdd"} => ModeCoverage(mode) = 90
  /\ mode = "rapid" =>
       /\ ModeCoverage(mode) = 60
       /\ ChecksSkipped(mode) = {"security scanning", "full test suite"}
  /\ ModeOwner(mode) \in Roles
  /\ lastActor \in Roles \cup {"human", "none"}
  /\ pstate \in PhaseTypes

C32_Witness ==
  /\ mode = "rapid"
  /\ pstate = "QA_CHECKING"
  /\ lastActor = "code-review"
  /\ ModeCoverage(mode) < MinCoverage

\* C33: the Phase Completion Record of phase k is created exactly once,
\* only after the human has committed phase k (never while the phase still
\* awaits its commit), and is never modified afterwards.
Committed(k) ==
  k \in reached /\ ~(phase = k /\ pstate = "AWAITING_COMMIT")

C33_RecordAfterCommitOnce ==
  /\ [](\A k \in 1..MaxPhases :
          /\ records[k] <= 1
          /\ records[k] = 1 => Committed(k))
  /\ [][\A k \in 1..MaxPhases :
          records[k] >= 1 => records'[k] = records[k]]_vars

\* What the workflow does keep: one record per phase that reached its
\* commit step, written when that step opens and never written again.
C33_RecordOncePerCommitStep ==
  /\ [](\A k \in 1..MaxPhases :
          records[k] = (IF k \in reached THEN 1 ELSE 0))
  /\ [][\A k \in 1..MaxPhases :
          records[k] >= 1 => records'[k] = records[k]]_vars

\* C34: the Quality-Assurance role never edits files: its capability set
\* holds no file-modifying capability, and no write to the target project
\* is attributed to it in any run.
FileModifying == {"edit"}

C34_QANeverEdits ==
  /\ tools("quality-assurance") \cap FileModifying = {}
  /\ \A i \in 1..Len(vcLog) : vcLog[i].by # "quality-assurance"

\* The research role of the same directory holds no such capability, and
\* no version-control operation of a run is made by the QA role.
C34_OnlyInstructionsForbid ==
  /\ tools("planning") \cap FileModifying = {}
  /\ \A i \in 1..Len(vcLog) : vcLog[i].by # "quality-assurance"


(***************************************************************************)
(* Conductor workflow: retries without a bound, and termination.           *)
(***************************************************************************)
\* The workflow sets no limit on the retries of a phase; the attempt
\* counter of the model stops at MaxAttempts, and a revision requested on
\* an attempt past that one returns to the implementation uncounted.
ReviewAgain ==
  /\ pstate = "REVIEWING"
  /\ attempts[phase] = MaxAttempts
  /\ review' = [review EXCEPT ![phase] =
                  [attempt |-> attempts[phase], verdict |-> "NEEDS_REVISION"]]
  /\ pstate' = "IMPLEMENTING"
  /\ lastActor' = "code-review"
  /\ UNCHANGED <<mode, records, nPhases, phase, attempts, qa, checkpoints,
                 reached, skipped, vcLog, qaVars, toolVars>>

\* A FAIL report on an attempt past the counted ones.
QAFailAgain ==
  /\ pstate = "QA_CHECKING"
  /\ attempts[phase] = MaxAttempts
  /\ qa' = [qa EXCEPT ![phase] =
              [attempt |-> attempts[phase], verdict |-> "FAIL"]]
  /\ pstate' = "IMPLEMENTING"
  /\ lastActor' = "quality-assurance"
  /\ UNCHANGED <<mode, records, nPhases, phase, attempts, review, checkpoints,
                 reached, skipped, vcLog, qaVars, toolVars>>

\* Runs in which no review returns FAILED.
ReviewNotFailed == Review /\ pstate' # "BLOCKED_ON_HUMAN"

LiveNext ==
  \/ StartPlanning
  \/ DraftPlan
  \/ RevisePlan
  \/ ApprovePlan
  \/ ImplementDone
  \/ ReviewNotFailed
  \/ ReviewAgain
  \/ QACheck
  \/ QAFailAgain
  \/ UserCommits

\* Every role that has been called returns.
RolesAct ==
  /\ WF_vars(StartPlanning)
  /\ WF_vars(DraftPlan)
  /\ WF_vars(ImplementDone)
  /\ WF_vars(ReviewNotFailed \/ ReviewAgain)
  /\ WF_vars(QACheck \/ QAFailAgain)

\* The human eventually approves the plan and eventually commits a phase
\* that awaits its commit.
HumanResponds == WF_vars(ApprovePlan) /\ WF_vars(UserCommits)

ReviewApproves == Review /\ pstate' = "QA_CHECKING"
QAPasses == QACheck /\ pstate' = "AWAITING_COMMIT"

\* Mutant of PhaseEventuallyPasses: nothing is assumed about the verdicts.
PhaseMayNeverPass == WF_vars(ImplementDone)

\* A phase that is reviewed again and again is eventually approved, and one
\* that is checked again and again eventually gets PASS or ADVISORY.
PhaseEventuallyPasses == SF_vars(ReviewApproves) /\ SF_vars(QAPasses)

SpecLive ==
  Init /\ [][LiveNext]_vars /\ RolesAct /\ HumanResponds /\ PhaseEventuallyPasses

\* C40: no retry loop is bounded: a revision or a FAIL report can send any
\* attempt back to the implementation; a request reaches COMPLETE in every
\* run in which the human responds at each checkpoint, no review returns
\* FAILED, and each phase eventually gets an APPROVED review followed by a
\* PASS or ADVISORY report.
RetryFromReview == (ReviewNotFailed \/ ReviewAgain) /\ pstate' = "IMPLEMENTING"
RetryFromQA == (QACheck \/ QAFailAgain) /\ pstate' = "IMPLEMENTING"

C40_CompletesIfPhasesPass ==
  /\ [](pstate = "REVIEWING" => ENABLED RetryFromReview)
  /\ [](pstate = "QA_CHECKING" => ENABLED RetryFromQA)
  /\ <>(pstate = "COMPLETE")

C40_Witness ==
  /\ pstate = "COMPLETE"
  /\ nPhases = MaxPhases
  /\ \A k \in 1..MaxPhases : attempts[k] = MaxAttempts
  /\ review[1] = [attempt |-> MaxAttempts, verdict |-> "APPROVED"]
  /\ qa[1].verdict = "ADVISORY"
  /\ skipped = {}

=============================================================================
